---- MODULE Spec2Model ----
(***************************************************************************)
(* Pangea compiler: the diagnostics collector (ErrorReporter), the module  *)
(* loader (ModuleManager) and the driver (main) as a state machine, and    *)
(* the semantic analyzer (TypeChecker), the Lexer and the Parser as        *)
(* further state machines over the same module.                            *)
(***************************************************************************)
EXTENDS Integers, Sequences, FiniteSets, TLC

VARIABLES
    error_reporter,   \* ErrorReporter: [diagnostics, has_errors]
    fs,               \* the file system as far as the run has observed it
    opts,             \* command-line flags of main, each "on", "off" or "unread"
    pc,               \* position of main / createProgram
    stage,            \* the pipeline stage started last
    program,          \* createProgram's Program
    import_idx,       \* index of createProgram's loop over main_module->imports
    loaded_modules,   \* ModuleManager::loaded_modules (kept here in insertion order)
    loading_modules,  \* ModuleManager::loading_modules
    call_stack,       \* active loadModule invocations, innermost last
    retval,           \* value returned by the loadModule call that just ended
    console,          \* messages written directly to std::cerr or std::cout
    printed,          \* diagnostics written by printDiagnostics
    exit_code,        \* process exit code, -1 while running
    tc,               \* TypeChecker state (used by SpecTC only)
    lexer,            \* Lexer state (used by SpecLexer only)
    parser,           \* Parser state (used by the parser specifications only)
    codegen           \* LLVMCodeGenerator state (used by SpecCodegen only)

vars == <<error_reporter, fs, opts, pc, stage, program, import_idx,
          loaded_modules, loading_modules, call_stack, retval, console,
          printed, exit_code, tc, lexer, parser, codegen>>

driver_vars == <<fs, opts, pc, stage, program, import_idx, loaded_modules,
                 loading_modules, call_stack, retval, console, printed, exit_code>>

----------------------------------------------------------------------------
(* Bounds of the model *)

\* import declarations written in all source files together
MaxImports == 2
\* diagnostics one later stage (semantic analysis, code generation) may report
MaxStageDiags == 1
\* diagnostics recorded by the collector when it is exercised on its own
MaxDiags == 3

----------------------------------------------------------------------------
(* Generic helpers *)

SeqsUpTo(S, n) == UNION {[1..k -> S] : k \in 0..n}

RECURSIVE SumOver(_, _)
SumOver(S, f) ==
    IF S = {} THEN 0
    ELSE LET x == CHOOSE y \in S : TRUE IN f[x] + SumOver(S \ {x}, f)

Range(s) == {s[i] : i \in 1..Len(s)}

----------------------------------------------------------------------------
(* ErrorReporter *)

ErrorLevel == {"INFO", "WARNING", "ERROR", "FATAL"}

NewReporter == [diagnostics |-> <<>>, has_errors |-> FALSE]

\* DiagnosticMessage: level, message and the token lexeme ("" when none)
DiagnosticMessage(level, message, token_lexeme) ==
    [level |-> level, message |-> message, token_lexeme |-> token_lexeme]

\* a variant where warnings raise the flag as well
reportError_FlagsWarnings(er, message, is_warning) ==
    [diagnostics |-> Append(er.diagnostics,
        DiagnosticMessage(IF is_warning THEN "WARNING" ELSE "ERROR", message, "")),
     has_errors |-> TRUE]

reportError(er, message, is_warning) ==
    [diagnostics |-> Append(er.diagnostics,
        DiagnosticMessage(IF is_warning THEN "WARNING" ELSE "ERROR", message, "")),
     has_errors |-> IF ~is_warning THEN TRUE ELSE er.has_errors]

\* the overload that records the token lexeme
reportErrorLexeme(er, message, token_lexeme, is_warning) ==
    [diagnostics |-> Append(er.diagnostics,
        DiagnosticMessage(IF is_warning THEN "WARNING" ELSE "ERROR", message, token_lexeme)),
     has_errors |-> IF ~is_warning THEN TRUE ELSE er.has_errors]

reportWarning(er, message) ==
    [er EXCEPT !.diagnostics = Append(@, DiagnosticMessage("WARNING", message, ""))]

reportInfo(er, message) ==
    [er EXCEPT !.diagnostics = Append(@, DiagnosticMessage("INFO", message, ""))]

hasErrors(er) == er.has_errors

getErrorCount(er) ==
    Cardinality({i \in 1..Len(er.diagnostics) :
        er.diagnostics[i].level = "ERROR" \/ er.diagnostics[i].level = "FATAL"})

getWarningCount(er) ==
    Cardinality({i \in 1..Len(er.diagnostics) : er.diagnostics[i].level = "WARNING"})

\* a variant that empties the list and keeps the flag
clear_KeepsFlag(er) == [er EXCEPT !.diagnostics = <<>>]

clear(er) == [diagnostics |-> <<>>, has_errors |-> FALSE]

\* reports a batch of diagnostics in order through reportError
RECURSIVE ReportAll(_, _)
ReportAll(er, batch) ==
    IF batch = <<>> THEN er
    ELSE ReportAll(reportError(er, Head(batch).message, Head(batch).level = "WARNING"),
                   Tail(batch))

----------------------------------------------------------------------------
(* Source files *)

\* import paths a source file may name
Paths == {"main", "io", "a", "b"}

\* the input file given on the command line
MainFile == "main.pang"

\* files that may exist; every other file name never exists
FileUniverse == {"main.pang", "stdlib/io.pang", "a.pang", "stdlib/a.pang", "b"}

\* a parsed `import "p"` (Parser::parseImportDeclaration without a brace list)
SourceImport(p) ==
    [module_path |-> p, imported_items |-> <<>>, is_wildcard |-> TRUE, location |-> "source"]

\* what is known of a file: "unknown" (not probed yet), "absent", or what it
\* holds: "empty" (readFile yields ""), "lexerr", "parseerr", "warn" (parses
\* with a warning) or "ok"; the last two carry the imports
FileContent(kind, imports) == [kind |-> kind, imports |-> imports]

Unknown == FileContent("unknown", <<>>)
Absent == FileContent("absent", <<>>)

IsContent(x) == x.kind \notin {"unknown", "absent"}

Existing(files) == {f \in FileUniverse : IsContent(files[f])}

ImportsUsed(files) ==
    SumOver(Existing(files), [f \in FileUniverse |->
        IF IsContent(files[f]) THEN Len(files[f].imports) ELSE 0])

\* contents a file read for the first time may turn out to hold
ContentChoices(files) ==
    {FileContent(k, <<>>) : k \in {"empty", "lexerr", "parseerr"}}
    \cup {FileContent(k, [i \in 1..Len(ps) |-> SourceImport(ps[i])]) :
            k \in {"ok", "warn"},
            ps \in SeqsUpTo(Paths, MaxImports - ImportsUsed(files))}

\* the outcomes of probing file f: the file system after the probe
Probe(files, f) ==
    IF f \notin FileUniverse THEN {files}
    ELSE IF files[f] # Unknown THEN {files}
    ELSE {[files EXCEPT ![f] = c] : c \in {Absent} \cup ContentChoices(files)}

----------------------------------------------------------------------------
(* ModuleManager *)

candidates(module_path) ==
    << module_path \o ".pang",
       module_path,
       "stdlib/" \o module_path \o ".pang",
       "stdlib/" \o module_path >>

\* first existing candidate, "" when none exists
resolveModulePath(module_path, existing) ==
    LET c == candidates(module_path)
        hits == {i \in 1..Len(c) : c[i] \in existing}
    IN  IF hits = {} THEN ""
        ELSE c[CHOOSE i \in hits : \A j \in hits : i <= j]

\* file systems consistent with `files` in which the probes made by
\* resolveModulePath(module_path) are decided: every candidate up to and
\* including the first existing one
RECURSIVE ProbeFrom(_, _, _)
ProbeFrom(files, c, i) ==
    IF i > Len(c) THEN {files}
    ELSE UNION { IF c[i] \in Existing(g) THEN {g} ELSE ProbeFrom(g, c, i + 1) :
                 g \in Probe(files, c[i]) }

ProbeCandidates(files, module_path) == ProbeFrom(files, candidates(module_path), 1)

Module(name, path, imports) ==
    [module_name |-> name, file_path |-> path, imports |-> imports]

\* a std::unique_ptr<Module>: nullptr or a module
Null == [is_null |-> TRUE, module |-> Module("", "", <<>>)]
Ptr(m) == [is_null |-> FALSE, module |-> m]

\* no loadModule call has just returned
NoReturn == [pending |-> FALSE, value |-> Null]
Returned(v) == [pending |-> TRUE, value |-> v]

\* the Program of createProgram; `returned` once createProgram has handed it
\* to main
NullProgram ==
    [is_null |-> TRUE, returned |-> FALSE, main_module |-> Module("", "", <<>>),
     modules |-> <<>>]

LoadedNames == {loaded_modules[i].key : i \in 1..Len(loaded_modules)}

\* loaded_modules[key] = module
MapInsert(map, key, module) ==
    IF \E i \in 1..Len(map) : map[i].key = key
    THEN [i \in 1..Len(map) |->
            IF map[i].key = key THEN [key |-> key, module |-> module] ELSE map[i]]
    ELSE Append(map, [key |-> key, module |-> module])

\* ModuleManager::readFile / ::readFile: the content, "" for a file that
\* cannot be opened or holds no line
readFile(files, filename) ==
    IF filename \in FileUniverse /\ IsContent(files[filename])
    THEN files[filename]
    ELSE FileContent("empty", <<>>)

\* Lexer::tokenize as the loader sees it: the diagnostics it records
tokenize(er, source) ==
    IF source.kind = "lexerr" THEN reportError(er, "lex", FALSE) ELSE er

\* Parser::parseProgram as the loader sees it: the diagnostics it records
\* (the module's imports are source.imports)
parseProgram(er, source) ==
    CASE source.kind = "parseerr" -> reportError(er, "parse", FALSE)
      [] source.kind = "warn"     -> reportError(er, "parse", TRUE)
      [] OTHER                    -> er

CircularMsg(module_path) ==
    [stream |-> "cerr", msg |-> "Circular dependency detected for module", module |-> module_path]
NotFoundMsg(module_path) ==
    [stream |-> "cerr", msg |-> "Could not find module", module |-> module_path]
FailedToLoadMsg(module_path) ==
    [stream |-> "cout", msg |-> "Failed to load module", module |-> module_path]

\* the result of loadModule up to the dependency loop:
\* returns = TRUE when the call ends there with nullptr
LoadEntry(returns, er, loading, msgs, module) ==
    [returns |-> returns, er |-> er, loading |-> loading, msgs |-> msgs, module |-> module]

\* a variant without the circular-dependency check
loadModuleEntry_NoCycleCheck(module_path, files, er, loaded, loading) ==
    IF module_path \in loaded
    THEN LoadEntry(TRUE, er, loading, <<>>, Null.module)
    ELSE LET file_path == resolveModulePath(module_path, Existing(files)) IN
         IF file_path = ""
         THEN LoadEntry(TRUE, er, loading, <<NotFoundMsg(module_path)>>, Null.module)
         ELSE
         LET marked == loading \cup {module_path}
             source == readFile(files, file_path)
             er1 == tokenize(er, source)
             er2 == parseProgram(er1, source)
         IN  IF source.kind = "empty"
             THEN LoadEntry(TRUE, er, marked \ {module_path}, <<>>, Null.module)
             ELSE IF hasErrors(er1)
             THEN LoadEntry(TRUE, er1, marked \ {module_path}, <<>>, Null.module)
             ELSE IF hasErrors(er2)
             THEN LoadEntry(TRUE, er2, marked \ {module_path}, <<>>, Null.module)
             ELSE LoadEntry(FALSE, er2, marked, <<>>,
                            Module(module_path, file_path, source.imports))

loadModuleEntry(module_path, files, er, loaded, loading) ==
    IF module_path \in loaded
    THEN LoadEntry(TRUE, er, loading, <<>>, Null.module)
    ELSE IF module_path \in loading
    THEN LoadEntry(TRUE, er, loading, <<CircularMsg(module_path)>>, Null.module)
    ELSE LET file_path == resolveModulePath(module_path, Existing(files)) IN
         IF file_path = ""
         THEN LoadEntry(TRUE, er, loading, <<NotFoundMsg(module_path)>>, Null.module)
         ELSE
         LET marked == loading \cup {module_path}
             source == readFile(files, file_path)
             er1 == tokenize(er, source)
             er2 == parseProgram(er1, source)
         IN  IF source.kind = "empty"
             THEN LoadEntry(TRUE, er, marked \ {module_path}, <<>>, Null.module)
             ELSE IF hasErrors(er1)
             THEN LoadEntry(TRUE, er1, marked \ {module_path}, <<>>, Null.module)
             ELSE IF hasErrors(er2)
             THEN LoadEntry(TRUE, er2, marked \ {module_path}, <<>>, Null.module)
             ELSE LoadEntry(FALSE, er2, marked, <<>>,
                            Module(module_path, file_path, source.imports))

Frame(module) == [module |-> module, next |-> 1]

Top == call_stack[Len(call_stack)]
Pop(stack) == SubSeq(stack, 1, Len(stack) - 1)

\* the import createProgram adds for an auto-imported module
ImplicitImport(stdlib_module) ==
    [module_path |-> stdlib_module, imported_items |-> <<>>, is_wildcard |-> TRUE,
     location |-> "none"]

stdlib_modules == <<"io">>

\* the module path of the loadModule call that is due next
CallDue ==
    /\ ~retval.pending
    /\ exit_code = -1
    /\ IF call_stack # <<>>
       THEN Top.next <= Len(Top.module.imports)
       ELSE \/ pc = "auto_import"
            \/ pc = "load_imports" /\ import_idx <= Len(program.main_module.imports)

CallTarget ==
    IF call_stack # <<>> THEN Top.module.imports[Top.next].module_path
    ELSE IF pc = "auto_import" THEN stdlib_modules[1]
    ELSE program.main_module.imports[import_idx].module_path

\* loadModule, lines 67-121: from the call to the start of the dependency loop
loadModule ==
    /\ CallDue
    /\ LET module_path == CallTarget IN
       \E files \in (IF module_path \in LoadedNames \cup loading_modules
                     THEN {fs} ELSE ProbeCandidates(fs, module_path)) :
          LET e == loadModuleEntry(module_path, files, error_reporter,
                                   LoadedNames, loading_modules)
          IN  /\ fs' = files
              /\ error_reporter' = e.er
              /\ loading_modules' = e.loading
              /\ console' = console \o e.msgs
              /\ IF e.returns
                 THEN /\ retval' = Returned(Null)
                      /\ call_stack' = call_stack
                 ELSE /\ retval' = NoReturn
                      /\ call_stack' = Append(call_stack, Frame(e.module))
    /\ UNCHANGED <<opts, pc, stage, program, import_idx, loaded_modules,
                   printed, exit_code, tc, lexer, parser, codegen>>

\* loadModule, lines 131-138: the dependency loop is over
loadModuleReturn ==
    /\ call_stack # <<>>
    /\ ~retval.pending
    /\ Top.next > Len(Top.module.imports)
    /\ loading_modules' = loading_modules \ {Top.module.module_name}
    /\ retval' = Returned(Ptr(Top.module))
    /\ call_stack' = Pop(call_stack)
    /\ UNCHANGED <<error_reporter, fs, opts, pc, stage, program, import_idx,
                   loaded_modules, console, printed, exit_code, tc, lexer, parser, codegen>>

\* loadModule, lines 125-128: a dependency's loadModule call has returned
loadDependency ==
    /\ call_stack # <<>>
    /\ retval.pending
    /\ LET import == Top.module.imports[Top.next] IN
       loaded_modules' =
          IF ~retval.value.is_null
          THEN MapInsert(loaded_modules, import.module_path, retval.value.module)
          ELSE loaded_modules
    /\ call_stack' = [call_stack EXCEPT ![Len(call_stack)].next = @ + 1]
    /\ retval' = NoReturn
    /\ UNCHANGED <<error_reporter, fs, opts, pc, stage, program, import_idx,
                   loading_modules, console, printed, exit_code, tc, lexer, parser, codegen>>

----------------------------------------------------------------------------
(* main *)

\* The command line is fixed before main runs; the model draws the value of a
\* flag when main first consults it, and keeps it from then on.
Flag(value) == IF value = "unread" THEN {"on", "off"} ELSE {value}

\* printDiagnostics: every recorded diagnostic, in insertion order
printDiagnostics(out, er) == out \o er.diagnostics

\* the process ends with `code`; `print` tells whether printDiagnostics ran first
Exit(code, print, er) ==
    /\ exit_code' = code
    /\ pc' = "done"
    /\ printed' = IF print THEN printDiagnostics(printed, er) ELSE printed

\* main, lines 347-360: what follows createProgram
mainAfterCreate(prog, er, print_ast) ==
    IF prog.is_null \/ hasErrors(er) THEN "fail"
    ELSE IF print_ast THEN "ast"
    ELSE "semantic"

\* a variant that goes on to code generation whatever the analysis reported
mainAfterAnalyze_NoCheck(er) == "codegen"

\* main, lines 372-375: what follows semantic analysis
mainAfterAnalyze(er) == IF hasErrors(er) THEN "fail" ELSE "codegen"

\* main, lines 386-393: what follows code generation and verification
mainAfterCodegen(verified, er) ==
    IF ~verified THEN "fail_silent"
    ELSE IF hasErrors(er) THEN "fail"
    ELSE "emit"

\* main, lines 345-360 after createProgram has returned `prog`
ContinueAfterCreate(prog, er) ==
    \E print_ast \in Flag(opts.print_ast) :
       LET next == mainAfterCreate(prog, er, print_ast = "on") IN
       /\ opts' = [opts EXCEPT !.print_ast = IF next = "fail" THEN @ ELSE print_ast]
       /\ CASE next = "fail"     -> Exit(1, TRUE, er)
            [] next = "ast"      -> Exit(0, FALSE, er)
            [] next = "semantic" -> /\ pc' = "semantic"
                                    /\ UNCHANGED <<exit_code, printed>>

\* createProgram, lines 141-172: read, lex and parse the main file
createProgramStart ==
    /\ pc = "start"
    /\ opts.print_tokens = "off"
    /\ stage' = "load"
    /\ \E files \in Probe(fs, MainFile), no_stdlib \in Flag(opts.no_stdlib) :
          LET source == readFile(files, MainFile)
              er1 == IF source.kind = "empty" THEN error_reporter
                     ELSE tokenize(error_reporter, source)
              er2 == IF source.kind = "empty" \/ hasErrors(er1) THEN er1
                     ELSE parseProgram(er1, source)
              ok == source.kind # "empty" /\ ~hasErrors(er1) /\ ~hasErrors(er2)
          IN  /\ fs' = files
              /\ error_reporter' = er2
              /\ IF ok
                 THEN /\ program' = [is_null |-> FALSE, returned |-> FALSE,
                                     main_module |-> Module("main", MainFile, source.imports),
                                     modules |-> <<>>]
                      /\ pc' = IF no_stdlib = "off" THEN "auto_import" ELSE "load_imports"
                      /\ opts' = [opts EXCEPT !.no_stdlib = no_stdlib]
                      /\ UNCHANGED <<exit_code, printed>>
                 ELSE /\ program' = NullProgram
                      /\ ContinueAfterCreate(NullProgram, er2)
    /\ import_idx' = 1
    /\ UNCHANGED <<loaded_modules, loading_modules, call_stack, retval, console, tc, lexer, parser, codegen>>

\* createProgram, lines 183-190: loadModule(stdlib_module) has returned
autoImport ==
    /\ pc = "auto_import"
    /\ call_stack = <<>>
    /\ retval.pending
    /\ IF ~retval.value.is_null
       THEN /\ loaded_modules' = MapInsert(loaded_modules, stdlib_modules[1], retval.value.module)
            /\ program' = [program EXCEPT !.main_module.imports =
                              Append(@, ImplicitImport(stdlib_modules[1]))]
       ELSE UNCHANGED <<loaded_modules, program>>
    /\ pc' = "load_imports"
    /\ retval' = NoReturn
    /\ UNCHANGED <<error_reporter, fs, opts, stage, import_idx, loading_modules,
                   call_stack, console, printed, exit_code, tc, lexer, parser, codegen>>

\* createProgram, lines 196-206: loadModule(import->module_path) has returned
loadImport ==
    /\ pc = "load_imports"
    /\ call_stack = <<>>
    /\ retval.pending
    /\ LET import == program.main_module.imports[import_idx] IN
       IF ~retval.value.is_null
       THEN /\ loaded_modules' = MapInsert(loaded_modules, import.module_path, retval.value.module)
            /\ import_idx' = import_idx + 1
            /\ UNCHANGED <<console, pc, exit_code, printed>>
       ELSE /\ console' = Append(console, FailedToLoadMsg(import.module_path))
            /\ Exit(1, FALSE, error_reporter)
            /\ UNCHANGED <<loaded_modules, import_idx>>
    /\ retval' = NoReturn
    /\ UNCHANGED <<error_reporter, fs, opts, stage, program, loading_modules,
                   call_stack, tc, lexer, parser, codegen>>

\* the orders in which iterating the unordered_map may deliver its entries
RECURSIVE Orders(_)
Orders(S) ==
    IF S = {} THEN {<<>>}
    ELSE UNION {{<<x>> \o t : t \in Orders(S \ {x})} : x \in S}

IterationOrders(map) == Orders(Range(map))

\* createProgram, lines 209-214, and main, lines 347-360
createProgramFinish ==
    /\ pc = "load_imports"
    /\ call_stack = <<>>
    /\ ~retval.pending
    /\ import_idx > Len(program.main_module.imports)
    /\ \E order \in IterationOrders(loaded_modules) :
          LET prog == [program EXCEPT
                          !.modules = [i \in 1..Len(order) |-> order[i].module],
                          !.returned = TRUE]
          IN  /\ program' = prog
              /\ ContinueAfterCreate(prog, error_reporter)
    /\ UNCHANGED <<error_reporter, fs, stage, import_idx, loaded_modules,
                   loading_modules, call_stack, retval, console, tc, lexer, parser, codegen>>

\* diagnostics TypeChecker::analyze may record: errors and warnings
TypeDiags ==
    SeqsUpTo({DiagnosticMessage("ERROR", "type", ""),
              DiagnosticMessage("WARNING", "type", "")}, MaxStageDiags)

\* diagnostics generateCode may record: reportCodegenError only
CodegenDiags == SeqsUpTo({DiagnosticMessage("ERROR", "codegen", "")}, MaxStageDiags)

\* main, lines 368-375: semantic analysis
semanticAnalysis ==
    /\ pc = "semantic"
    /\ stage' = "semantic"
    /\ \E batch \in TypeDiags :
          LET er == ReportAll(error_reporter, batch) IN
          /\ error_reporter' = er
          /\ IF mainAfterAnalyze(er) = "fail"
             THEN Exit(1, TRUE, er)
             ELSE /\ pc' = "codegen"
                  /\ UNCHANGED <<exit_code, printed>>
    /\ UNCHANGED <<fs, opts, program, import_idx, loaded_modules, loading_modules,
                   call_stack, retval, console, tc, lexer, parser, codegen>>

\* what llvm::verifyModule can do inside LLVMCodeGenerator::verify
VerifyOutcomes == {"ok", "failed", "exception"}

\* LLVMCodeGenerator::verify: a failed verification records a diagnostic,
\* an exception is only printed; true is returned on "ok" alone
verify(er, outcome) ==
    IF outcome = "failed" THEN reportError(er, "verify", FALSE) ELSE er

\* what LLVMCodeGenerator::verify prints on std::cerr
VerifyFailedMsg ==
    [stream |-> "cerr", msg |-> "Module verification failed with errors", module |-> ""]
VerifyExceptionMsg ==
    [stream |-> "cerr", msg |-> "Exception during LLVM module verification", module |-> ""]

verifyMessages(out, outcome) ==
    CASE outcome = "ok"        -> out
      [] outcome = "failed"    -> Append(out, VerifyFailedMsg)
      [] outcome = "exception" -> Append(out, VerifyExceptionMsg)

\* main, lines 383-393: code generation and verification
codeGeneration ==
    /\ pc = "codegen"
    /\ stage' = "codegen"
    /\ \E batch \in CodegenDiags, outcome \in VerifyOutcomes :
          LET er1 == ReportAll(error_reporter, batch)
              er2 == verify(er1, outcome)
              next == mainAfterCodegen(outcome = "ok", er2)
          IN  /\ error_reporter' = er2
              /\ console' = verifyMessages(console, outcome)
              /\ CASE next = "fail_silent" -> Exit(1, FALSE, er2)
                   [] next = "fail"        -> Exit(1, TRUE, er2)
                   [] next = "emit"        -> /\ pc' = "emit"
                                              /\ UNCHANGED <<exit_code, printed>>
    /\ UNCHANGED <<fs, opts, program, import_idx, loaded_modules, loading_modules,
                   call_stack, retval, tc, lexer, parser, codegen>>

\* main, lines 402-415: the exit code after emission. emitToFile returns
\* nothing; compileToExecutable returns false on failure
mainAfterEmit(output_llvm, written) ==
    IF output_llvm THEN 0
    ELSE IF written THEN 0 ELSE 1

\* main, lines 402-415: emitToFile or compileToExecutable; either records a
\* diagnostic when it fails
emitOutput ==
    /\ pc = "emit"
    /\ stage' = "emit"
    /\ \E written \in BOOLEAN, output_llvm \in Flag(opts.output_llvm) :
          /\ opts' = [opts EXCEPT !.output_llvm = output_llvm]
          /\ error_reporter' =
                IF written THEN error_reporter
                ELSE reportError(error_reporter,
                                 IF output_llvm = "on" THEN "emit" ELSE "link", FALSE)
          /\ Exit(mainAfterEmit(output_llvm = "on", written), FALSE, error_reporter)
    /\ UNCHANGED <<fs, program, import_idx, loaded_modules, loading_modules,
                   call_stack, retval, console, tc, lexer, parser, codegen>>

\* main, lines 316-336: --tokens
printTokens ==
    /\ pc = "start"
    /\ opts.print_tokens = "on"
    /\ stage' = "tokens"
    /\ \E files \in Probe(fs, MainFile) :
          LET source == readFile(files, MainFile)
              er == IF source.kind = "empty" THEN error_reporter
                    ELSE tokenize(error_reporter, source)
          IN  /\ fs' = files
              /\ error_reporter' = er
              /\ IF source.kind = "empty" THEN Exit(1, FALSE, er)
                 ELSE IF hasErrors(er) THEN Exit(1, TRUE, er)
                 ELSE Exit(0, FALSE, er)
    /\ UNCHANGED <<opts, program, import_idx, loaded_modules, loading_modules,
                   call_stack, retval, console, tc, lexer, parser, codegen>>

TcIdle == [pc |-> "idle"]
LexerIdle == [pc |-> "idle"]
ParserIdle == [pc |-> "idle"]
CodegenIdle == [pc |-> "idle"]

InitDriver ==
    /\ error_reporter = NewReporter
    /\ fs = [f \in FileUniverse |-> Unknown]
    /\ opts \in [print_tokens : {"on", "off"}, print_ast : {"unread"},
                 output_llvm : {"unread"}, no_stdlib : {"unread"}]
    /\ pc = "start"
    /\ stage = "none"
    /\ program = NullProgram
    /\ import_idx = 1
    /\ loaded_modules = <<>>
    /\ loading_modules = {}
    /\ call_stack = <<>>
    /\ retval = NoReturn
    /\ console = <<>>
    /\ printed = <<>>
    /\ exit_code = -1

Init ==
    /\ InitDriver
    /\ codegen = CodegenIdle
    /\ tc = TcIdle
    /\ lexer = LexerIdle
    /\ parser = ParserIdle

Next ==
    \/ createProgramStart
    \/ loadModule
    \/ loadModuleReturn
    \/ loadDependency
    \/ autoImport
    \/ loadImport
    \/ createProgramFinish
    \/ semanticAnalysis
    \/ codeGeneration
    \/ emitOutput
    \/ printTokens

Spec == Init /\ [][Next]_vars

----------------------------------------------------------------------------
(* The diagnostics collector on its own: any sequence of report and clear *)

Lexemes == {"", "tok"}

ReportError ==
    /\ Len(error_reporter.diagnostics) < MaxDiags
    /\ \E is_warning \in BOOLEAN :
          error_reporter' = reportError(error_reporter, "m", is_warning)
    /\ UNCHANGED <<driver_vars, tc, lexer, parser, codegen>>

ReportErrorLexeme ==
    /\ Len(error_reporter.diagnostics) < MaxDiags
    /\ \E is_warning \in BOOLEAN, token_lexeme \in Lexemes :
          error_reporter' = reportErrorLexeme(error_reporter, "m", token_lexeme, is_warning)
    /\ UNCHANGED <<driver_vars, tc, lexer, parser, codegen>>

ReportWarning ==
    /\ Len(error_reporter.diagnostics) < MaxDiags
    /\ error_reporter' = reportWarning(error_reporter, "m")
    /\ UNCHANGED <<driver_vars, tc, lexer, parser, codegen>>

ReportInfo ==
    /\ Len(error_reporter.diagnostics) < MaxDiags
    /\ error_reporter' = reportInfo(error_reporter, "m")
    /\ UNCHANGED <<driver_vars, tc, lexer, parser, codegen>>

Clear ==
    /\ error_reporter' = clear(error_reporter)
    /\ UNCHANGED <<driver_vars, tc, lexer, parser, codegen>>

InitReporter ==
    /\ Init
    /\ opts.print_tokens = "off"

NextReporter ==
    \/ ReportError
    \/ ReportErrorLexeme
    \/ ReportWarning
    \/ ReportInfo
    \/ Clear

SpecReporter == InitReporter /\ [][NextReporter]_vars

----------------------------------------------------------------------------
(* TypeChecker: the whole-program pass, visit(Program) *)

\* declarations in the analysed program
MaxDecls == 2
\* import declarations in the analysed program
MaxTcImports == 1

\* identifiers the analysed sources declare and reference
Identifiers == {"f", "g"}

\* the shapes of Program::modules; Program::main_module is always "main"
ModuleLists == {<<>>, <<"a">>, <<"a", "b">>}

\* ImportDeclaration as parseImportDeclaration builds it: no brace list or
\* { * } is a wildcard, { item, ... } lists the items
ImportDeclaration(module_path, imported_items, is_wildcard) ==
    [module_path |-> module_path, imported_items |-> imported_items,
     is_wildcard |-> is_wildcard]

\* FunctionDeclaration: its name, its export flag and the identifiers its
\* body references
FunctionDeclaration(name, is_exported, body) ==
    [name |-> name, is_exported |-> is_exported, body |-> body]

\* Module as the type checker sees it
AnalysedModule(module_name, imports, declarations) ==
    [module_name |-> module_name, imports |-> imports, declarations |-> declarations]

DeclarationChoices ==
    {FunctionDeclaration(n, e, b) :
        n \in Identifiers, e \in BOOLEAN, b \in SeqsUpTo({"f"}, 1)}

ImportChoices(names) ==
    {ImportDeclaration(p, <<>>, TRUE) : p \in names}
    \cup {ImportDeclaration(p, <<i>>, FALSE) : p \in names, i \in Identifiers}

\* every way to give each of n modules a sequence over S, budget elements
\* in total at most
RECURSIVE Distribute(_, _, _)
Distribute(n, S, budget) ==
    IF n = 0 THEN {<<>>}
    ELSE UNION {{<<s>> \o rest : rest \in Distribute(n - 1, S, budget - Len(s))} :
                    s \in SeqsUpTo(S, budget)}

\* the modules loadModule reaches from the main module's imports, given
\* each module's import declarations
RECURSIVE Loaded(_, _, _)
Loaded(names, imps, reached) ==
    LET from == {Len(names) + 1} \cup {i \in 1..Len(names) : names[i] \in reached}
        next == reached \cup
                UNION {{imps[i][j].module_path : j \in 1..Len(imps[i])} : i \in from}
    IN  IF next = reached THEN reached ELSE Loaded(names, imps, next)

\* the programs createProgram can hand to the type checker: Program::modules
\* holds exactly the modules the imports reach
Programs(names) ==
    {[main_module |-> AnalysedModule("main", imps[Len(names) + 1], decls[Len(names) + 1]),
      modules |-> [i \in 1..Len(names) |->
                      AnalysedModule(names[i], imps[i], decls[i])]] :
        imps \in {x \in Distribute(Len(names) + 1, ImportChoices(Range(names)),
                                   MaxTcImports) :
                     Loaded(names, x, {}) = Range(names)},
        decls \in Distribute(Len(names) + 1, DeclarationChoices, MaxDecls)}

\* Symbol: the fields that decide visibility
Symbol(name, declared_module, is_exported) ==
    [name |-> name, declared_module |-> declared_module, is_exported |-> is_exported]

\* std::unordered_map: the empty map and operator[] assignment
EmptyMap == [k \in {} |-> {}]

MapPut(map, key, value) ==
    [k \in DOMAIN map \cup {key} |-> IF k = key THEN value ELSE map[k]]

\* Scope::define
define(symbols, name, symbol) == MapPut(symbols, name, symbol)

\* the result of Scope::lookup: a symbol, or nullptr
NoSymbol == [found |-> FALSE, symbol |-> Symbol("", "", FALSE)]
FoundSymbol(symbol) == [found |-> TRUE, symbol |-> symbol]

\* Scope::lookup over the chain of scopes, innermost last
RECURSIVE lookup(_, _)
lookup(scope_chain, name) ==
    IF scope_chain = <<>> THEN NoSymbol
    ELSE LET symbols == scope_chain[Len(scope_chain)] IN
         IF name \in DOMAIN symbols THEN FoundSymbol(symbols[name])
         ELSE lookup(SubSeq(scope_chain, 1, Len(scope_chain) - 1), name)

\* the type checker's tables when analyze starts
NewTypeChecker(node) ==
    [pc |-> IF node.modules = <<>> THEN "main_module" ELSE "first_pass",
     idx |-> 1, node |-> node,
     global_scope |-> EmptyMap, exports_by_module |-> EmptyMap,
     module_imports |-> EmptyMap, current_module_name |-> "",
     resolved |-> {}, errors |-> 0]

\* visit(IdentifierExpression) in the scope chain of a function body:
\* current_scope->lookup decides alone
visitIdentifierExpression(t, scope_chain, name) ==
    LET r == lookup(scope_chain, name) IN
    [t EXCEPT !.resolved = @ \cup {[module |-> t.current_module_name, name |-> name,
                                     found |-> r.found, symbol |-> r.symbol]},
              !.errors = IF r.found THEN @ ELSE @ + 1]

RECURSIVE visitBody(_, _, _)
visitBody(t, scope_chain, body) ==
    IF body = <<>> THEN t
    ELSE visitBody(visitIdentifierExpression(t, scope_chain, Head(body)),
                   scope_chain, Tail(body))

\* visit(FunctionDeclaration): define the function in the current (global)
\* scope, then analyse the body in a scope of its own
visitFunctionDeclaration(t, decl) ==
    LET t1 == [t EXCEPT !.global_scope =
                   define(@, decl.name,
                          Symbol(decl.name, t.current_module_name, decl.is_exported))]
    IN  visitBody(t1, <<t1.global_scope, EmptyMap>>, decl.body)

RECURSIVE visitDeclarations(_, _)
visitDeclarations(t, declarations) ==
    IF declarations = <<>> THEN t
    ELSE visitDeclarations(visitFunctionDeclaration(t, Head(declarations)),
                           Tail(declarations))

\* collectModuleExports: every exported symbol of the global scope
collectModuleExports(t, module) ==
    LET exported == {n \in DOMAIN t.global_scope : t.global_scope[n].is_exported}
        module_exports == [n \in exported |->
                              [t.global_scope[n] EXCEPT !.is_exported = TRUE]]
    IN  [t EXCEPT !.exports_by_module = MapPut(@, module.module_name, module_exports)]

\* injectImportsIntoScope, one import declaration
injectImport(t, import_decl) ==
    IF import_decl.module_path \notin DOMAIN t.exports_by_module THEN t
    ELSE LET exports == t.exports_by_module[import_decl.module_path]
             should_import == {n \in DOMAIN exports :
                                  \/ import_decl.is_wildcard
                                  \/ n \in Range(import_decl.imported_items)}
         IN  [t EXCEPT !.global_scope =
                  [n \in DOMAIN @ \cup should_import |->
                      IF n \in should_import THEN exports[n] ELSE @[n]]]

RECURSIVE injectImports(_, _)
injectImports(t, imports) ==
    IF imports = <<>> THEN t
    ELSE injectImports(injectImport(t, Head(imports)), Tail(imports))

\* injectImportsIntoScope
injectImportsIntoScope(t, module) ==
    [injectImports(t, module.imports) EXCEPT
        !.module_imports = MapPut(@, module.module_name, module.imports)]

\* reportTypeError for every identifier the step left unresolved
RECURSIVE reportTypeErrors(_, _)
reportTypeErrors(er, n) ==
    IF n = 0 THEN er
    ELSE reportTypeErrors(reportError(er, "type", FALSE), n - 1)

TcStep(t) ==
    /\ tc' = [t EXCEPT !.errors = 0]
    /\ error_reporter' = reportTypeErrors(error_reporter, t.errors)
    /\ UNCHANGED <<driver_vars, lexer, parser, codegen>>

\* visit(Program), first pass: one module's declarations and exports
visitProgramFirstPass ==
    /\ tc.pc = "first_pass"
    /\ LET module == tc.node.modules[tc.idx]
           t1 == [tc EXCEPT !.current_module_name = module.module_name]
           t2 == visitDeclarations(t1, module.declarations)
           t3 == collectModuleExports(t2, module)
       IN  TcStep(IF tc.idx < Len(tc.node.modules)
                  THEN [t3 EXCEPT !.idx = @ + 1]
                  ELSE [t3 EXCEPT !.pc = "second_pass", !.idx = 1])

\* visit(Program), second pass: one module's imports
visitProgramSecondPass ==
    /\ tc.pc = "second_pass"
    /\ LET module == tc.node.modules[tc.idx]
           t1 == [tc EXCEPT !.current_module_name = module.module_name]
           t2 == injectImportsIntoScope(t1, module)
       IN  TcStep(IF tc.idx < Len(tc.node.modules)
                  THEN [t2 EXCEPT !.idx = @ + 1]
                  ELSE [t2 EXCEPT !.pc = "main_module", !.idx = 1])

\* visit(Program), the main module
visitProgramMainModule ==
    /\ tc.pc = "main_module"
    /\ LET module == tc.node.main_module
           t1 == [tc EXCEPT !.current_module_name = module.module_name]
           t2 == injectImportsIntoScope(t1, module)
           t3 == visitDeclarations(t2, module.declarations)
           t4 == collectModuleExports(t3, module)
       IN  TcStep([t4 EXCEPT !.pc = "done"])

InitTC ==
    /\ InitDriver
    /\ codegen = CodegenIdle
    /\ opts.print_tokens = "off"
    /\ \E names \in ModuleLists : tc \in {NewTypeChecker(node) : node \in Programs(names)}
    /\ lexer = LexerIdle
    /\ parser = ParserIdle

NextTC ==
    \/ visitProgramFirstPass
    \/ visitProgramSecondPass
    \/ visitProgramMainModule

SpecTC == InitTC /\ [][NextTC]_vars

----------------------------------------------------------------------------
(* Properties of the driver and the loader *)

Done == pc = "done"

LaterStages == {"semantic", "codegen", "emit"}

\* createProgram has returned a program to main
Created == ~program.is_null /\ program.returned

ConsoleMsgs(msg) == {i \in 1..Len(console) : console[i].msg = msg}

ErrorDiags(messages) ==
    {i \in 1..Len(error_reporter.diagnostics) :
        /\ error_reporter.diagnostics[i].level \in {"ERROR", "FATAL"}
        /\ error_reporter.diagnostics[i].message \in messages}

\* C1: once the diagnostics error flag is set, no later pipeline stage is
\* started: a step taken with the flag set leaves the started stage as it is.
C1_NoStageAfterError ==
    [][hasErrors(error_reporter) => stage' = stage]_vars

\* an error recorded by semantic analysis ended the run before code generation
C1_Witness ==
    /\ Done /\ exit_code = 1 /\ stage = "semantic"
    /\ hasErrors(error_reporter)

\* a failure of one of the kinds the exit-code contract lists has occurred
FailureOccurred ==
    \/ ErrorDiags({"lex", "parse", "type", "codegen", "verify", "link"}) # {}
    \/ ConsoleMsgs(CircularMsg("").msg) # {}
    \/ ConsoleMsgs(NotFoundMsg("").msg) # {}

\* C2: the exit code is 1 whenever a failure occurred (lexical, parse,
\* import/module, type, codegen, verification, link) and 0 only when none did
\* (stated for compile runs with --no-stdlib that are not --ast dumps).
C2_ExitCodeReflectsFailure ==
    (Done /\ opts.no_stdlib = "on" /\ opts.print_ast # "on") =>
        /\ FailureOccurred => exit_code = 1
        /\ exit_code = 0 => ~FailureOccurred

StackNames == {call_stack[i].module.module_name : i \in 1..Len(call_stack)}

ImportsOf(m) ==
    LET file_path == resolveModulePath(m, Existing(fs)) IN
    IF file_path = "" THEN {}
    ELSE {fs[file_path].imports[i].module_path : i \in 1..Len(fs[file_path].imports)}

\* two modules that import each other were met by the loader
MutualImportMet ==
    \E x, y \in Paths :
       /\ x # y
       /\ y \in ImportsOf(x) /\ x \in ImportsOf(y)
       /\ \E i \in ConsoleMsgs(CircularMsg("").msg) : console[i].module \in {x, y}

\* C4: two modules importing each other give exactly one circular-dependency
\* error and exit code 1 (stated for runs that are not --ast dumps).
C4_MutualImportFails ==
    (Done /\ MutualImportMet /\ opts.print_ast # "on") =>
        /\ Cardinality(ConsoleMsgs(CircularMsg("").msg)) = 1
        /\ exit_code = 1

\* C5: an import none of whose candidate paths exists ends compilation: no
\* later stage runs and the exit code is not 0 (stated for runs with
\* --no-stdlib, where every import is one written in a source file, that are
\* not --ast dumps).
C5_MissingImportIsFatal ==
    (/\ opts.no_stdlib = "on" /\ opts.print_ast # "on"
     /\ ConsoleMsgs(NotFoundMsg("").msg) # {}) =>
        /\ stage \notin LaterStages
        /\ exit_code # 0

InsertionOrder == [i \in 1..Len(loaded_modules) |-> loaded_modules[i].module]

\* C6: the program's module list is the loader's insertion order.
C6_ModulesInInsertionOrder ==
    Created => program.modules = InsertionOrder

\* C7: unless --no-stdlib is given, the first import of the main module is the
\* implicit wildcard import of io (stated from the point where io has been
\* auto-imported).
C7_ImplicitImportFirst ==
    (/\ opts.no_stdlib = "off"
     /\ ~program.is_null
     /\ pc \notin {"start", "auto_import"}
     /\ stdlib_modules[1] \in LoadedNames) =>
        /\ program.main_module.imports # <<>>
        /\ program.main_module.imports[1] = ImplicitImport(stdlib_modules[1])

\* a failure that is not a diagnostic: a message on the console, or a main file that
\* cannot be read
OtherFailure ==
    \/ console # <<>>
    \/ readFile(fs, MainFile).kind = "empty"

\* C8: warnings never fail compilation: while no error-level diagnostic is
\* recorded the error flag is clear, and a run that ends without one and
\* without any other failure ends with exit code 0.
C8_WarningsNeverFail ==
    /\ getErrorCount(error_reporter) = 0 => ~hasErrors(error_reporter)
    /\ (Done /\ getErrorCount(error_reporter) = 0 /\ ~OtherFailure) => exit_code = 0

\* a run with warnings from the parser and from semantic analysis went through
\* every stage and ended with exit code 0
C8_Witness ==
    /\ Done /\ exit_code = 0 /\ stage = "emit"
    /\ getWarningCount(error_reporter) >= 2
    /\ getErrorCount(error_reporter) = 0

\* C23: an import of a module that is already in loaded_modules never makes
\* compilation fail: no import of a loaded module is reported as failed to
\* load.
C23_RepeatedImportSucceeds ==
    \A i \in 1..Len(console) :
        console[i].msg = "Failed to load module" => console[i].module \notin LoadedNames

\* C28: in the program createProgram returns, the main module's source file
\* is not the file of a loaded module, and no two loaded modules were parsed
\* from one file.
C28_EachFileParsedOnce ==
    (~program.is_null /\ program.returned) =>
        /\ \A i \in 1..Len(program.modules) :
              program.modules[i].file_path # program.main_module.file_path
        /\ \A i, j \in 1..Len(program.modules) :
              program.modules[i].file_path = program.modules[j].file_path => i = j

\* C29: when the driver ends with a failure exit code and diagnostics were
\* recorded, printDiagnostics has printed every one of them.
C29_FailureExitPrintsDiagnostics ==
    (Done /\ exit_code = 1 /\ error_reporter.diagnostics # <<>>) =>
        printed = error_reporter.diagnostics

\* C9: hasErrors() holds exactly when getErrorCount() > 0.
C9_FlagIffErrorCount ==
    hasErrors(error_reporter) <=> getErrorCount(error_reporter) > 0

\* an error and a warning are recorded side by side
C9_Witness ==
    /\ hasErrors(error_reporter)
    /\ getErrorCount(error_reporter) = 1
    /\ getWarningCount(error_reporter) >= 1

----------------------------------------------------------------------------
(* Properties of the type checker *)

AnalysedModules == Range(tc.node.modules) \cup {tc.node.main_module}

\* module n holds an import of module m that is wildcard or lists name
ImportsSymbol(n, m, name) ==
    \E module \in AnalysedModules :
        /\ module.module_name = n
        /\ \E i \in 1..Len(module.imports) :
              /\ module.imports[i].module_path = m
              /\ \/ module.imports[i].is_wildcard
                 \/ name \in Range(module.imports[i].imported_items)

\* module m declares name and flags it exported
ExportsSymbol(m, name) ==
    \E module \in AnalysedModules :
        /\ module.module_name = m
        /\ \E i \in 1..Len(module.declarations) :
              /\ module.declarations[i].name = name
              /\ module.declarations[i].is_exported

\* C10: a reference in module N resolves to a symbol of another module M
\* only if the symbol is exported and N imports M wildcard or by that name,
\* and a reference to such an exported, imported symbol does resolve.
C10_VisibleIffExportedAndImported ==
    \A r \in tc.resolved :
        /\ (r.found /\ r.symbol.declared_module # r.module)
              => /\ r.symbol.is_exported
                 /\ ImportsSymbol(r.module, r.symbol.declared_module, r.name)
        /\ (\E m \in {module.module_name : module \in AnalysedModules} \ {r.module} :
                ExportsSymbol(m, r.name) /\ ImportsSymbol(r.module, m, r.name))
              => r.found

----------------------------------------------------------------------------
(* Parser: parseProgram and parseDeclaration over a token stream.  A token *)
(* is its TokenType; "REST" stands for the tokens that complete a          *)
(* declaration after its keyword, NEWLINE tokens are left out.             *)

\* declarations in one source file
MaxFileDecls == 2
\* diagnostics after which the loop of parseProgram is no longer followed
MaxParseDiagnostics == 4

\* the token sequences that open a declaration, by the sub-parser they select
DeclarationOpeners ==
    {<<"FN">>, <<"CLASS">>, <<"STRUCT">>, <<"ENUM">>, <<"IMPORT">>, <<"LET">>,
     <<"LET", "MUT">>, <<"CONST">>, <<"TYPE">>, <<"FOREIGN", "FN">>,
     <<"FOREIGN", "STRUCT">>, <<"FOREIGN", "ENUM">>, <<"FOREIGN", "CONST">>}

\* one declaration as written: optionally `export`, the opener, and the rest
\* of the declaration (missing when the declaration is malformed); or a
\* token that opens no declaration
DeclarationSources ==
    {prefix \o opener \o rest :
        prefix \in {<<>>, <<"EXPORT">>},
        opener \in DeclarationOpeners,
        rest \in {<<"REST">>}}
    \cup {<<"FN">>, <<"EXPORT", "LET">>}
    \cup {<<"RIGHT_BRACE">>}

RECURSIVE Concat(_)
Concat(seqs) == IF seqs = <<>> THEN <<>> ELSE Head(seqs) \o Concat(Tail(seqs))

\* the token vector the lexer hands to the parser for the declarations ds:
\* always closed by EOF
TokenStream(ds) == Concat(ds) \o <<"EOF_TOKEN">>

\* Parser::isAtEnd, peek, advance, check
isAtEnd(tokens, current) == tokens[current] = "EOF_TOKEN"

advance(tokens, current) == IF ~isAtEnd(tokens, current) THEN current + 1 ELSE current

check(tokens, current, type) == ~isAtEnd(tokens, current) /\ tokens[current] = type

\* the tokens at which Parser::synchronize stops
SynchronizeAt ==
    {"CLASS", "FN", "LET", "FOR", "IF", "WHILE", "RETURN", "CONST", "IMPORT",
     "STRUCT", "ENUM", "FOREIGN", "TYPE"}

\* Parser::synchronize: the loop after the first advance
RECURSIVE synchronizeLoop(_, _)
synchronizeLoop(tokens, current) ==
    IF isAtEnd(tokens, current) THEN current
    ELSE IF tokens[current - 1] = "SEMICOLON" THEN current
    ELSE IF tokens[current] \in SynchronizeAt THEN current
    ELSE synchronizeLoop(tokens, advance(tokens, current))

\* Parser::synchronize
synchronize(tokens, current) == synchronizeLoop(tokens, advance(tokens, current))

\* a declaration node: the class of the node, where it starts and the
\* exported flag the semantic analyzer reads from it.  No parser function
\* assigns the flag, so a node carries the value it is constructed with.
DeclarationNode(kind, location) ==
    [is_null |-> FALSE, kind |-> kind, location |-> location, is_exported |-> FALSE]

NullNode == [is_null |-> TRUE, kind |-> "", location |-> 0, is_exported |-> FALSE]

\* what a parse function hands back: the node (or nullptr), the parser's
\* position, the collector, and whether it left by throwing
ParseResult(node, current, er, thrown) ==
    [node |-> node, current |-> current, er |-> er, thrown |-> thrown]

\* Parser::reportError
parserReportError(er, message) == reportError(er, message, FALSE)

\* the declaration sub-parsers (parseFunctionDeclaration, ...) after their
\* keyword: they consume the rest of the declaration or throw at the first
\* unexpected token
parseDeclarationRest(kind, location, tokens, current, er) ==
    IF check(tokens, current, "REST")
    THEN ParseResult(DeclarationNode(kind, location), advance(tokens, current), er, FALSE)
    ELSE ParseResult(NullNode, current, parserReportError(er, "parse"), TRUE)

\* Parser::parseDeclaration inside its try block
RECURSIVE parseDeclarationTry(_, _, _)
\* Parser::parseDeclaration: a throw is caught here and followed by synchronize
parseDeclaration(tokens, current, er) ==
    LET r == parseDeclarationTry(tokens, current, er) IN
    IF r.thrown
    THEN ParseResult(NullNode, synchronize(tokens, r.current), r.er, FALSE)
    ELSE r

parseDeclarationTry(tokens, current, er) ==
    LET next == advance(tokens, current)
        sub(kind, at) == parseDeclarationRest(kind, current, tokens, at, er)
    IN
    IF isAtEnd(tokens, current) THEN ParseResult(NullNode, current, er, FALSE)
    ELSE IF check(tokens, current, "EXPORT") THEN parseDeclaration(tokens, next, er)
    ELSE IF check(tokens, current, "FOREIGN") THEN
         IF check(tokens, next, "FN") THEN sub("FunctionDeclaration", next + 1)
         ELSE IF check(tokens, next, "STRUCT") THEN sub("StructDeclaration", next + 1)
         ELSE IF check(tokens, next, "ENUM") THEN sub("EnumDeclaration", next + 1)
         ELSE IF check(tokens, next, "CLASS")
              THEN ParseResult(NullNode, next + 1, parserReportError(er, "parse"), FALSE)
         ELSE IF check(tokens, next, "CONST") THEN sub("VariableDeclaration", next + 1)
         ELSE ParseResult(NullNode, next, parserReportError(er, "parse"), FALSE)
    ELSE IF check(tokens, current, "TYPE") THEN sub("VariableDeclaration", next)
    ELSE IF check(tokens, current, "FN") THEN sub("FunctionDeclaration", next)
    ELSE IF check(tokens, current, "CLASS") THEN sub("ClassDeclaration", next)
    ELSE IF check(tokens, current, "STRUCT") THEN sub("StructDeclaration", next)
    ELSE IF check(tokens, current, "ENUM") THEN sub("EnumDeclaration", next)
    ELSE IF check(tokens, current, "IMPORT") THEN sub("ImportDeclaration", next)
    ELSE IF check(tokens, current, "LET") THEN
         IF check(tokens, next, "MUT") THEN sub("VariableDeclaration", next + 1)
         ELSE sub("VariableDeclaration", next)
    ELSE IF check(tokens, current, "CONST") THEN sub("VariableDeclaration", next)
    ELSE ParseResult(NullNode, current, parserReportError(er, "parse"), FALSE)

NewParser(tokens) ==
    [pc |-> "parseProgram", tokens |-> tokens, current |-> 1,
     imports |-> <<>>, declarations |-> <<>>]

\* Parser::parseProgram, one turn of its loop
parseProgramDeclaration ==
    /\ parser.pc = "parseProgram"
    /\ ~isAtEnd(parser.tokens, parser.current)
    /\ Len(error_reporter.diagnostics) < MaxParseDiagnostics
    /\ LET r == parseDeclaration(parser.tokens, parser.current, error_reporter) IN
       /\ error_reporter' = r.er
       /\ parser' =
            [parser EXCEPT
               !.current = r.current,
               !.imports = IF ~r.node.is_null /\ r.node.kind = "ImportDeclaration"
                           THEN Append(@, r.node) ELSE @,
               !.declarations = IF ~r.node.is_null /\ r.node.kind # "ImportDeclaration"
                                THEN Append(@, r.node) ELSE @]
    /\ UNCHANGED <<driver_vars, tc, lexer, codegen>>

\* Parser::parseProgram, the loop has reached EOF: the program is returned
parseProgramReturn ==
    /\ parser.pc = "parseProgram"
    /\ isAtEnd(parser.tokens, parser.current)
    /\ parser' = [parser EXCEPT !.pc = "done"]
    /\ UNCHANGED <<error_reporter, driver_vars, tc, lexer, codegen>>

InitDeclarations ==
    /\ InitDriver
    /\ codegen = CodegenIdle
    /\ opts.print_tokens = "off"
    /\ tc = TcIdle
    /\ lexer = LexerIdle
    /\ \E n \in 0..MaxFileDecls :
          \E ds \in [1..n -> DeclarationSources] : parser = NewParser(TokenStream(ds))

NextDeclarations ==
    \/ parseProgramDeclaration
    \/ parseProgramReturn

SpecDeclarations == InitDeclarations /\ [][NextDeclarations]_vars

\* the nodes parseProgram has put into the module
ParsedNodes == Range(parser.imports) \cup Range(parser.declarations)

\* C11: every declaration written with an `export` prefix is produced with
\* its exported flag set.
C11_ExportSetsFlag ==
    \A node \in ParsedNodes :
        (node.location > 1 /\ parser.tokens[node.location - 1] = "EXPORT")
            => node.is_exported

\* C22: every turn of the loop of parseProgram consumes at least one token
\* or leaves the parser at EOF, so parseProgram terminates on every token
\* vector that ends in EOF.
C22_EveryTurnAdvances ==
    [][parser.pc = "parseProgram"
          => \/ parser'.current > parser.current
             \/ isAtEnd(parser'.tokens, parser'.current)]_vars

----------------------------------------------------------------------------
(* TypeChecker: declarations and scopes.  tc.scopes is the chain from the  *)
(* global scope (first) to current_scope (last); tc.log records every      *)
(* name a declaration introduced, whether the name was already defined in  *)
(* that scope and whether a redefinition error was reported for it.        *)

\* symbols defined during one analysis
MaxScopeDefs == 3
\* scopes open at once, the global scope included
MaxScopeDepth == 2

\* names the analysed declarations introduce
ScopeNames == {"x", "y"}

\* a symbol as the scope keeps it; the declaration_location tells two
\* declarations of one name apart
ScopeSymbol(name, kind, declaration_location) ==
    [name |-> name, kind |-> kind, declaration_location |-> declaration_location]

\* Scope::isDefined: the scope's own table only
isDefined(symbols, name) == name \in DOMAIN symbols

currentScope(scopes) == scopes[Len(scopes)]

\* current_scope->define
defineInCurrent(scopes, name, symbol) ==
    [scopes EXCEPT ![Len(scopes)] = define(@, name, symbol)]

\* a variant that also copies the symbols of the scope being left into its parent
exitScope_KeepsSymbols(scopes) ==
    IF Len(scopes) > 1
    THEN [SubSeq(scopes, 1, Len(scopes) - 1) EXCEPT ![Len(scopes) - 1] =
             [n \in DOMAIN @ \cup DOMAIN scopes[Len(scopes)] |->
                 IF n \in DOMAIN scopes[Len(scopes)] THEN scopes[Len(scopes)][n]
                 ELSE @[n]]]
    ELSE scopes

\* TypeChecker::exitScope: back to the parent if there is one
exitScope(scopes) ==
    IF Len(scopes) > 1 THEN SubSeq(scopes, 1, Len(scopes) - 1) ELSE scopes

\* TypeChecker::enterScope
enterScope(scopes) == Append(scopes, EmptyMap)

\* what every name resolves to from current_scope
Resolution(scopes) == [n \in ScopeNames |-> lookup(scopes, n)]

LogEntry(kind, name, redefinition, reported) ==
    [kind |-> kind, name |-> name, redefinition |-> redefinition, reported |-> reported]

\* one current_scope->define(name, symbol) that no check precedes
defineUnchecked(t, kind, name) ==
    [t EXCEPT
        !.scopes = defineInCurrent(@, name, ScopeSymbol(name, kind, Len(t.log) + 1)),
        !.log = Append(@, LogEntry(kind, name, isDefined(currentScope(t.scopes), name), FALSE))]

RECURSIVE defineAll(_, _, _)
defineAll(t, kind, names) ==
    IF names = <<>> THEN t
    ELSE defineAll(defineUnchecked(t, kind, Head(names)), kind, Tail(names))

NewScopes ==
    [pc |-> "scopes", scopes |-> <<EmptyMap>>, log |-> <<>>,
     entered |-> <<>>, exited |-> <<>>, errors |-> 0]

ScopeStep(t) ==
    /\ tc' = [t EXCEPT !.errors = 0]
    /\ error_reporter' = reportTypeErrors(error_reporter, t.errors)
    /\ UNCHANGED <<driver_vars, lexer, parser, codegen>>

\* a declaration was visited: what the last exitScope left is no longer current
Visited(t) == [t EXCEPT !.exited = <<>>]

\* visit(VariableDeclaration): isDefined, then the error or the definition
visitVariableDeclaration ==
    /\ tc.pc = "scopes"
    /\ Len(tc.log) < MaxScopeDefs
    /\ \E name \in ScopeNames :
          IF isDefined(currentScope(tc.scopes), name)
          THEN ScopeStep(Visited([tc EXCEPT
                  !.log = Append(@, LogEntry("variable", name, TRUE, TRUE)),
                  !.errors = 1]))
          ELSE ScopeStep(Visited([tc EXCEPT
                  !.scopes = defineInCurrent(@, name,
                                 ScopeSymbol(name, "variable", Len(tc.log) + 1)),
                  !.log = Append(@, LogEntry("variable", name, FALSE, FALSE))]))

\* visit(FunctionDeclaration) up to its body: the function is defined in the
\* current scope, a scope is entered and the parameters are defined in it
visitFunctionDeclarationEnter ==
    /\ tc.pc = "scopes"
    /\ Len(tc.scopes) < MaxScopeDepth
    /\ \E name \in ScopeNames, parameters \in SeqsUpTo(ScopeNames, 2) :
          /\ Len(tc.log) + 1 + Len(parameters) <= MaxScopeDefs
          /\ LET t1 == defineUnchecked(Visited(tc), "function", name)
                 t2 == [t1 EXCEPT !.entered = Append(@, Resolution(t1.scopes)),
                                  !.scopes = enterScope(@)]
             IN  ScopeStep(defineAll(t2, "parameter", parameters))

\* visit(ClassDeclaration) of a class without members: the class symbol and
\* the constructor symbol are both defined under the class name
visitClassDeclaration ==
    /\ tc.pc = "scopes"
    /\ Len(tc.log) + 2 <= MaxScopeDefs
    /\ \E name \in ScopeNames :
          ScopeStep(defineUnchecked(defineUnchecked(Visited(tc), "class", name),
                                    "constructor", name))

\* visit(StructDeclaration)
visitStructDeclaration ==
    /\ tc.pc = "scopes"
    /\ Len(tc.log) < MaxScopeDefs
    /\ \E name \in ScopeNames : ScopeStep(defineUnchecked(Visited(tc), "struct", name))

\* visit(EnumDeclaration): the enum and each of its variants
visitEnumDeclaration ==
    /\ tc.pc = "scopes"
    /\ \E name \in ScopeNames, variants \in SeqsUpTo(ScopeNames, 1) :
          /\ Len(tc.log) + 1 + Len(variants) <= MaxScopeDefs
          /\ ScopeStep(defineAll(defineUnchecked(Visited(tc), "enum", name),
                                 "variant", variants))

\* visit(BlockStatement), entry: enterScope
visitBlockStatementEnter ==
    /\ tc.pc = "scopes"
    /\ Len(tc.scopes) < MaxScopeDepth
    /\ ScopeStep([Visited(tc) EXCEPT !.entered = Append(@, Resolution(tc.scopes)),
                                     !.scopes = enterScope(@)])

\* the end of a block or of a function body: exitScope
visitBlockStatementExit ==
    /\ tc.pc = "scopes"
    /\ Len(tc.scopes) > 1
    /\ ScopeStep([tc EXCEPT !.scopes = exitScope(@),
                            !.entered = SubSeq(@, 1, Len(@) - 1),
                            !.exited = <<tc.entered[Len(tc.entered)]>>])

InitScopes ==
    /\ InitDriver
    /\ codegen = CodegenIdle
    /\ opts.print_tokens = "off"
    /\ tc = NewScopes
    /\ lexer = LexerIdle
    /\ parser = ParserIdle

NextScopes ==
    \/ visitVariableDeclaration
    \/ visitFunctionDeclarationEnter
    \/ visitClassDeclaration
    \/ visitStructDeclaration
    \/ visitEnumDeclaration
    \/ visitBlockStatementEnter
    \/ visitBlockStatementExit

SpecScopes == InitScopes /\ [][NextScopes]_vars

\* C12: every declaration that introduces a name already defined in the
\* same scope is answered by a redefinition error.
C12_RedefinitionReported ==
    \A i \in 1..Len(tc.log) : tc.log[i].redefinition => tc.log[i].reported

\* C15: right after an inner scope has been exited, every name that was
\* bound when the scope was entered resolves to the same symbol as then.
C15_InnerScopeLeavesOuterResolution ==
    \A i \in 1..Len(tc.exited) :
        \A n \in ScopeNames :
            tc.exited[i][n].found => lookup(tc.scopes, n) = tc.exited[i][n]

\* an inner scope that declared a name bound outside it has been exited
C15_Witness ==
    /\ tc.exited # <<>>
    /\ \E n \in ScopeNames, i \in 1..Len(tc.log) :
          /\ tc.exited[1][n].found
          /\ tc.log[i].name = n
          /\ ~tc.log[i].reported
          /\ i > tc.exited[1][n].symbol.declaration_location

----------------------------------------------------------------------------
(* TypeChecker: the types of expressions.  The analysed expression is an   *)
(* operator tree over identifiers; the scope binds one variable to every   *)
(* primitive type, named after the type, and leaves "undefined" unbound.   *)

\* operators in the analysed expression
MaxOperators == 2

integer_names == {"i8", "i16", "i32", "i64", "u8", "u16", "u32", "u64"}
float_names == {"f32", "f64"}
PrimitiveNames == integer_names \cup float_names \cup {"bool", "string"}

\* SemanticType::createPrimitive and createError
createPrimitive(name) == [kind |-> "PRIMITIVE", name |-> name]
createError == [kind |-> "ERROR_TYPE", name |-> "<error>"]

\* SemanticType::isNumberType, isFloatingPointType (no aliases here)
isNumberType(t) == t.kind # "ERROR_TYPE" /\ t.kind = "PRIMITIVE" /\ t.name \in integer_names
isFloatingPointType(t) == t.kind # "ERROR_TYPE" /\ t.kind = "PRIMITIVE" /\ t.name \in float_names

\* SemanticType::isCompatibleWith on primitive and error types
isCompatibleWith(t, other) ==
    IF t.kind = "ERROR_TYPE" \/ other.kind = "ERROR_TYPE" THEN FALSE
    ELSE IF t.kind = other.kind /\ t.name = other.name THEN TRUE
    ELSE /\ isNumberType(t) \/ isFloatingPointType(t)
         /\ isNumberType(other) \/ isFloatingPointType(other)

\* TypeChecker::numericRank
numericRank(t) ==
    CASE t.name \in {"i8", "u8"}   -> 1
      [] t.name \in {"i16", "u16"} -> 2
      [] t.name \in {"i32", "u32"} -> 3
      [] t.name \in {"i64", "u64"} -> 4
      [] t.name = "f32"            -> 5
      [] t.name = "f64"            -> 6
      [] OTHER                     -> 0

\* TypeChecker::commonNumericTypeName
commonNumericTypeName(a, b) ==
    IF ~((isNumberType(a) \/ isFloatingPointType(a)) /\
         (isNumberType(b) \/ isFloatingPointType(b))) THEN ""
    ELSE IF isFloatingPointType(a) \/ isFloatingPointType(b)
         THEN IF a.name = "f64" \/ b.name = "f64" THEN "f64" ELSE "f32"
    ELSE IF numericRank(a) >= numericRank(b) THEN a.name ELSE b.name

\* expression nodes
IdentifierExpression(name) == [node |-> "Identifier", op |-> "", name |-> name, args |-> <<>>]
UnaryExpression(op, operand) == [node |-> "Unary", op |-> op, name |-> "", args |-> <<operand>>]
BinaryExpression(op, left, right) ==
    [node |-> "Binary", op |-> op, name |-> "", args |-> <<left, right>>]

\* one operator of each case of the switch in visit(BinaryExpression),
\* visit(UnaryExpression)
BinaryOperators == {"PLUS", "BITWISE_LEFT_SHIFT", "EQUAL", "LOGICAL_AND"}
UnaryOperators == {"MINUS", "LOGICAL_NOT"}

\* identifiers used where operators nest
NestedIdentifiers == {"i32", "bool", "undefined"}

\* the expressions with exactly n operators over NestedIdentifiers
RECURSIVE ExpressionsWith(_)
ExpressionsWith(n) ==
    IF n = 0 THEN {IdentifierExpression(name) : name \in NestedIdentifiers}
    ELSE {UnaryExpression(op, e) : op \in UnaryOperators, e \in ExpressionsWith(n - 1)}
         \cup UNION {{BinaryExpression(op, l, r) :
                         op \in BinaryOperators,
                         l \in ExpressionsWith(i), r \in ExpressionsWith(n - 1 - i)} :
                     i \in 0..(n - 1)}

\* every pair of variables of primitive type under a binary operator
PrimitivePair(op, a, b) ==
    BinaryExpression(op, IdentifierExpression(a), IdentifierExpression(b))

\* the global scope of the analysis: a variable of every primitive type
TypedScope ==
    [name \in PrimitiveNames |->
        [name |-> name, type |-> createPrimitive(name)]]

\* a reported type error, with whether the reporting node had an operand of
\* error type
TypeError(message, operand_error) == [message |-> message, operand_error |-> operand_error]

\* the outcome of visiting an expression: the type set for it and the
\* errors reported on the way
Typed(type, reported) == [type |-> type, reported |-> reported]

HasErrorOperand(types) == \E i \in 1..Len(types) : types[i].kind = "ERROR_TYPE"

\* visit(BinaryExpression) after both operands have been visited
binaryResult(op, left_type, right_type) ==
    LET numeric(t) == isNumberType(t) \/ isFloatingPointType(t)
        cascade == HasErrorOperand(<<left_type, right_type>>)
        fail(message) == Typed(createError, <<TypeError(message, cascade)>>)
        ok(t) == Typed(t, <<>>)
    IN
    CASE op = "PLUS" ->
            IF numeric(left_type) /\ numeric(right_type)
            THEN LET common_type == commonNumericTypeName(left_type, right_type) IN
                 IF common_type # "" THEN ok(createPrimitive(common_type))
                 ELSE ok(left_type)
            ELSE fail("Invalid operands for arithmetic operation")
      [] op = "BITWISE_LEFT_SHIFT" ->
            IF isCompatibleWith(left_type, right_type) /\ left_type.name \in integer_names
            THEN ok(left_type)
            ELSE fail("Invalid operands for bitwise shift operation")
      [] op = "EQUAL" ->
            IF numeric(left_type) /\ numeric(right_type) THEN ok(createPrimitive("bool"))
            ELSE IF isCompatibleWith(left_type, right_type) THEN ok(createPrimitive("bool"))
            ELSE fail("Cannot compare incompatible types")
      [] op = "LOGICAL_AND" ->
            IF left_type.name = "bool" /\ right_type.name = "bool"
            THEN ok(createPrimitive("bool"))
            ELSE IF /\ isCompatibleWith(left_type, right_type)
                    /\ left_type.name \in integer_names \cup float_names
                 THEN ok(createPrimitive("bool"))
            ELSE fail("Logical operators require boolean or numeric operands")
      [] OTHER -> fail("Unknown binary operator")

\* visit(UnaryExpression) after the operand has been visited
unaryResult(op, operand_type) ==
    LET cascade == HasErrorOperand(<<operand_type>>)
        fail(message) == Typed(createError, <<TypeError(message, cascade)>>)
    IN
    CASE op = "MINUS" ->
            IF operand_type.name \in {"i8", "i16", "i32", "i64", "f32", "f64"}
            THEN Typed(operand_type, <<>>)
            ELSE fail("Unary minus requires numeric operand")
      [] op = "LOGICAL_NOT" ->
            IF operand_type.name = "bool" \/ operand_type.name \in integer_names \cup float_names
            THEN Typed(createPrimitive("bool"), <<>>)
            ELSE fail("Logical not requires boolean or numeric operand")
      [] OTHER -> fail("Unknown unary operator")

\* visit(IdentifierExpression), visit(UnaryExpression), visit(BinaryExpression)
RECURSIVE visitExpression(_)
visitExpression(e) ==
    CASE e.node = "Identifier" ->
            LET r == lookup(<<TypedScope>>, e.name) IN
            IF r.found THEN Typed(r.symbol.type, <<>>)
            ELSE Typed(createError, <<TypeError("Undefined identifier", FALSE)>>)
      [] e.node = "Unary" ->
            LET operand == visitExpression(e.args[1])
                result == unaryResult(e.op, operand.type)
            IN  Typed(result.type, operand.reported \o result.reported)
      [] e.node = "Binary" ->
            LET left == visitExpression(e.args[1])
                right == visitExpression(e.args[2])
                result == binaryResult(e.op, left.type, right.type)
            IN  Typed(result.type, left.reported \o right.reported \o result.reported)

NewExpressionCheck(e) ==
    [pc |-> "expression", node |-> e, declared |-> "", type |-> createError, reported |-> <<>>]

ExpressionStep(t) ==
    /\ tc' = t
    /\ error_reporter' = reportTypeErrors(error_reporter, Len(t.reported))
    /\ UNCHANGED <<driver_vars, lexer, parser, codegen>>

\* visit(ExpressionStatement): the expression is visited
visitExpressionStatement ==
    /\ tc.pc = "expression"
    /\ LET r == visitExpression(tc.node) IN
       ExpressionStep([tc EXCEPT !.pc = "done", !.type = r.type, !.reported = r.reported])

\* visit(VariableDeclaration) of `let v: T = e`: the initializer is visited
\* and compared with the declared type
visitVariableInitializer ==
    /\ tc.pc = "expression"
    /\ \E declared \in {"i32", "bool"} :
          LET r == visitExpression(tc.node)
              var_type == createPrimitive(declared)
              mismatch ==
                 IF ~isCompatibleWith(r.type, var_type)
                 THEN <<TypeError("Type mismatch in variable initialization",
                                  HasErrorOperand(<<r.type>>))>>
                 ELSE <<>>
          IN  ExpressionStep([tc EXCEPT !.pc = "done", !.declared = declared,
                                        !.type = r.type,
                                        !.reported = r.reported \o mismatch])

InitExpressions ==
    /\ InitDriver
    /\ codegen = CodegenIdle
    /\ opts.print_tokens = "off"
    /\ \/ \E n \in 0..MaxOperators :
             \E e \in ExpressionsWith(n) : tc = NewExpressionCheck(e)
       \/ \E op \in BinaryOperators, a \in PrimitiveNames, b \in PrimitiveNames :
             tc = NewExpressionCheck(PrimitivePair(op, a, b))
    /\ lexer = LexerIdle
    /\ parser = ParserIdle

NextExpressions ==
    \/ visitExpressionStatement
    \/ visitVariableInitializer

SpecExpressions == InitExpressions /\ [][NextExpressions]_vars

\* C13: no operator, initializer or statement reports a diagnostic while one
\* of its operands already has the error type.
C13_NoCascadingErrors ==
    \A i \in 1..Len(tc.reported) : ~tc.reported[i].operand_error

\* the analysed expression is an arithmetic operation on two variables of
\* numeric type
IsNumericSum ==
    /\ tc.pc = "done"
    /\ tc.node.node = "Binary"
    /\ tc.node.op = "PLUS"
    /\ \A i \in 1..2 : /\ tc.node.args[i].node = "Identifier"
                       /\ tc.node.args[i].name \in integer_names \cup float_names

\* C14: the common numeric type of a and b is the common numeric type of b
\* and a: the type given to a + b is also the one b + a gets.
C14_CommonTypeSymmetric ==
    IsNumericSum =>
        tc.type.name = commonNumericTypeName(createPrimitive(tc.node.args[2].name),
                                             createPrimitive(tc.node.args[1].name))

----------------------------------------------------------------------------
(* Parser: expressions.  The token stream is an expression statement made  *)
(* of identifiers, binary operators and prefix operators; it holds no      *)
(* parenthesis, bracket, dot, literal or cast, so parseCall's postfix loop *)
(* and the other branches of parsePrimary never match.                     *)

\* binary operators in the parsed expression
MaxBinaryOperators == 2

AssignmentOperators ==
    {"ASSIGN", "PLUS_ASSIGN", "MINUS_ASSIGN", "MULTIPLY_ASSIGN", "DIVIDE_ASSIGN",
     "MODULO_ASSIGN"}

LadderLevels == 1..7

\* the operators matched by parseLogicalOr, parseLogicalAnd, parseEquality,
\* parseComparison, parseBitwiseShift, parseTerm and parseFactor, in the
\* order each calls the next
LadderOperators_TermFactorSwapped(level) ==
    CASE level = 1 -> {"LOGICAL_OR"}
      [] level = 2 -> {"LOGICAL_AND"}
      [] level = 3 -> {"NOT_EQUAL", "EQUAL"}
      [] level = 4 -> {"GREATER", "GREATER_EQUAL", "LESS", "LESS_EQUAL"}
      [] level = 5 -> {"BITWISE_LEFT_SHIFT", "BITWISE_RIGHT_SHIFT"}
      [] level = 6 -> {"DIVIDE", "MULTIPLY", "MODULO"}
      [] level = 7 -> {"MINUS", "PLUS"}

LadderOperators(level) ==
    CASE level = 1 -> {"LOGICAL_OR"}
      [] level = 2 -> {"LOGICAL_AND"}
      [] level = 3 -> {"NOT_EQUAL", "EQUAL"}
      [] level = 4 -> {"GREATER", "GREATER_EQUAL", "LESS", "LESS_EQUAL"}
      [] level = 5 -> {"BITWISE_LEFT_SHIFT", "BITWISE_RIGHT_SHIFT"}
      [] level = 6 -> {"MINUS", "PLUS"}
      [] level = 7 -> {"DIVIDE", "MULTIPLY", "MODULO"}

\* the infix operators of the parsed statements: the first and the last
\* operator of every match list of the ladder
InfixOperators ==
    {"ASSIGN", "MODULO_ASSIGN", "AS", "LOGICAL_OR", "LOGICAL_AND", "NOT_EQUAL", "EQUAL",
     "GREATER", "LESS_EQUAL", "BITWISE_LEFT_SHIFT", "BITWISE_RIGHT_SHIFT", "MINUS",
     "PLUS", "DIVIDE", "MODULO", "POWER"}

PrefixOperators == {"LOGICAL_NOT", "MINUS"}

\* the lexemes of the identifiers of a stream, in order
OperandNames == <<"a", "b", "c", "d", "e", "f">>

\* the tokens of operand (operator operand)*, the operand numbered prefixed
\* (if any) being under the prefix operator
RECURSIVE InfixStream(_, _, _, _)
InfixStream(operators, prefixed, prefix, k) ==
    LET operand == IF prefixed = k THEN <<prefix, "IDENTIFIER">> ELSE <<"IDENTIFIER">> IN
    IF k = 1 THEN operand
    ELSE InfixStream(operators, prefixed, prefix, k - 1) \o <<operators[k - 1]>> \o operand

\* an expression statement: an infix chain with at most one operand under a
\* prefix operator, then the end of the file
ExpressionStream(operators, prefixed, prefix) ==
    InfixStream(operators, prefixed, prefix, Len(operators) + 1) \o <<"EOF_TOKEN">>

\* the lexeme of the identifier token at position current
RECURSIVE IdentifiersUpTo(_, _)
IdentifiersUpTo(tokens, current) ==
    IF current = 0 THEN 0
    ELSE IdentifiersUpTo(tokens, current - 1)
         + (IF tokens[current] = "IDENTIFIER" THEN 1 ELSE 0)

TokenLexeme(tokens, current) == OperandNames[IdentifiersUpTo(tokens, current)]

\* AST nodes built by the expression parser
NoExpression == [node |-> "null", op |-> "", name |-> "", args |-> <<>>]
PrimitiveType(name) == [node |-> "PrimitiveType", op |-> "", name |-> name, args |-> <<>>]
GenericType(name, type_arguments) ==
    [node |-> "GenericType", op |-> "", name |-> name, args |-> type_arguments]
AsExpression(expression, target_type) ==
    [node |-> "As", op |-> "AS", name |-> "", args |-> <<expression, target_type>>]
AssignmentExpression(op, left, right) ==
    [node |-> "Assignment", op |-> op, name |-> "", args |-> <<left, right>>]

\* a parse function that reports message and throws
parseThrow(current, er, message) ==
    ParseResult(NoExpression, current, parserReportError(er, message), TRUE)

\* Parser::parseType on a stream of identifiers and operators: no pointer
\* qualifier, primitive keyword, comma or bracket occurs
RECURSIVE parseType(_, _, _)
parseType(tokens, current, er) ==
    IF check(tokens, current, "IDENTIFIER")
    THEN LET type_name == TokenLexeme(tokens, current)
             after == advance(tokens, current)
         IN  IF check(tokens, after, "LESS")
             THEN LET argument == parseType(tokens, advance(tokens, after), er) IN
                  IF argument.thrown THEN argument
                  ELSE IF check(tokens, argument.current, "GREATER")
                       THEN ParseResult(GenericType(type_name, <<argument.node>>),
                                        advance(tokens, argument.current),
                                        argument.er, FALSE)
                  ELSE parseThrow(argument.current, argument.er,
                                  "Expected '>' after generic type arguments")
             ELSE ParseResult(PrimitiveType(type_name), after, er, FALSE)
    ELSE parseThrow(current, er, "Expected type")

\* Parser::parsePrimary
parsePrimary(tokens, current, er) ==
    IF check(tokens, current, "IDENTIFIER")
    THEN ParseResult(IdentifierExpression(TokenLexeme(tokens, current)),
                     advance(tokens, current), er, FALSE)
    ELSE parseThrow(current, er, "Expected expression")

\* Parser::parseCall
parseCall(tokens, current, er) == parsePrimary(tokens, current, er)

\* Parser::parseUnary
RECURSIVE parseUnary(_, _, _)
parseUnary(tokens, current, er) ==
    IF \E op \in PrefixOperators : check(tokens, current, op)
    THEN LET right == parseUnary(tokens, advance(tokens, current), er) IN
         IF right.thrown THEN right
         ELSE ParseResult(UnaryExpression(tokens[current], right.node),
                          right.current, right.er, FALSE)
    ELSE parseCall(tokens, current, er)

\* std::make_unique<BinaryExpression>(expr, op, right) once the right operand
\* is parsed; what the right operand threw passes through
BinaryOf(op, expr, right) ==
    IF right.thrown THEN right
    ELSE ParseResult(BinaryExpression(op, expr.node, right.node),
                     right.current, right.er, FALSE)

\* Parser::parsePower after its left operand expr
RECURSIVE parsePower(_, _, _)
parsePowerRight(tokens, expr) ==
    IF expr.thrown THEN expr
    ELSE IF check(tokens, expr.current, "POWER")
    THEN BinaryOf("POWER", expr,
                  parsePower(tokens, advance(tokens, expr.current), expr.er))
    ELSE expr

\* Parser::parsePower
parsePower(tokens, current, er) ==
    parsePowerRight(tokens, parseUnary(tokens, current, er))

\* Parser::parseLogicalOr (level 1) ... Parser::parseFactor (level 7): the
\* operand is parsed by the next level, parseFactor's by parsePower
RECURSIVE parseLadder(_, _, _, _)
RECURSIVE parseLadderLoop(_, _, _)
parseLadderOperand(level, tokens, current, er) ==
    IF level = 7 THEN parsePower(tokens, current, er)
    ELSE parseLadder(level + 1, tokens, current, er)

\* the while (match({...})) loop of a level, expr being the tree so far;
\* what an operand threw leaves the loop
parseLadderLoop(level, tokens, expr) ==
    IF expr.thrown THEN expr
    ELSE IF \E op \in LadderOperators(level) : check(tokens, expr.current, op)
    THEN parseLadderLoop(level, tokens,
            BinaryOf(tokens[expr.current], expr,
                     parseLadderOperand(level, tokens,
                                        advance(tokens, expr.current), expr.er)))
    ELSE expr

parseLadder(level, tokens, current, er) ==
    parseLadderLoop(level, tokens, parseLadderOperand(level, tokens, current, er))

parseLogicalOr(tokens, current, er) == parseLadder(1, tokens, current, er)

\* Parser::parseAsExpression: the loop after the first operand; what the
\* operand threw leaves the loop
RECURSIVE parseAsLoop(_, _)
parseAsLoop(tokens, expr) ==
    IF expr.thrown THEN expr
    ELSE IF check(tokens, expr.current, "AS")
    THEN LET target_type == parseType(tokens, advance(tokens, expr.current), expr.er) IN
         IF target_type.thrown THEN target_type
         ELSE parseAsLoop(tokens,
                 ParseResult(AsExpression(expr.node, target_type.node),
                             target_type.current, target_type.er, FALSE))
    ELSE expr

\* Parser::parseAsExpression
parseAsExpression(tokens, current, er) ==
    parseAsLoop(tokens, parseLogicalOr(tokens, current, er))

\* std::make_unique<AssignmentExpression>(expr, op, right) once the right
\* side is parsed; what the right side threw passes through
AssignmentOf(op, expr, right) ==
    IF right.thrown THEN right
    ELSE ParseResult(AssignmentExpression(op, expr.node, right.node),
                     right.current, right.er, FALSE)

\* Parser::parseAssignment after its left side expr
RECURSIVE parseAssignment(_, _, _)
parseAssignmentRight(tokens, expr) ==
    IF expr.thrown THEN expr
    ELSE IF \E op \in AssignmentOperators : check(tokens, expr.current, op)
    THEN AssignmentOf(tokens[expr.current], expr,
                      parseAssignment(tokens, advance(tokens, expr.current), expr.er))
    ELSE expr

\* Parser::parseAssignment
parseAssignment(tokens, current, er) ==
    parseAssignmentRight(tokens, parseAsExpression(tokens, current, er))

\* Parser::parseExpression
parseExpression(tokens, current, er) == parseAssignment(tokens, current, er)

\* Parser::consumeOptionalSemicolon: the loop over extra semicolons
RECURSIVE extraSemicolons(_, _)
extraSemicolons(tokens, r) ==
    IF check(tokens, r.current, "SEMICOLON")
    THEN extraSemicolons(tokens,
            ParseResult(r.node, advance(tokens, r.current),
                        parserReportError(r.er, "Unexpected extra semicolon"), FALSE))
    ELSE r

\* Parser::consumeOptionalSemicolon; it is not reached when the statement
\* before it threw
consumeOptionalSemicolon(tokens, r) ==
    IF r.thrown THEN r
    ELSE IF check(tokens, r.current, "SEMICOLON")
    THEN extraSemicolons(tokens, ParseResult(r.node, advance(tokens, r.current), r.er, FALSE))
    ELSE IF \/ check(tokens, r.current, "NEWLINE")
            \/ check(tokens, r.current, "RIGHT_BRACE")
            \/ isAtEnd(tokens, r.current)
    THEN r
    ELSE parseThrow(r.current, r.er, "Expected ';' or newline after statement")

NewExpressionParser(tokens) ==
    [pc |-> "parseStatement", tokens |-> tokens, current |-> 1,
     node |-> NoExpression, thrown |-> FALSE]

\* Parser::parseExpressionStatement returns or throws r
ExpressionStatementStep(r) ==
    /\ parser' = [parser EXCEPT !.pc = "done", !.current = r.current,
                                !.node = r.node, !.thrown = r.thrown]
    /\ error_reporter' = r.er
    /\ UNCHANGED <<driver_vars, tc, lexer, codegen>>

\* Parser::parseExpressionStatement
parseExpressionStatement ==
    /\ parser.pc = "parseStatement"
    /\ ExpressionStatementStep(
          consumeOptionalSemicolon(parser.tokens,
              parseExpression(parser.tokens, parser.current, error_reporter)))

InitExpressionStatements ==
    /\ InitDriver
    /\ codegen = CodegenIdle
    /\ opts.print_tokens = "off"
    /\ tc = TcIdle
    /\ lexer = LexerIdle
    /\ \E n \in 0..MaxBinaryOperators :
          \E operators \in [1..n -> InfixOperators], prefixed \in 0..(n + 1),
             prefix \in PrefixOperators :
             parser = NewExpressionParser(ExpressionStream(operators, prefixed, prefix))

NextExpressionStatements == parseExpressionStatement

SpecExpressionStatements == InitExpressionStatements /\ [][NextExpressionStatements]_vars

\* the rung of an infix operator on the precedence ladder, low to high
Precedence(op) ==
    CASE op \in AssignmentOperators -> 1
      [] op = "AS" -> 2
      [] op = "LOGICAL_OR" -> 3
      [] op = "LOGICAL_AND" -> 4
      [] op \in {"EQUAL", "NOT_EQUAL"} -> 5
      [] op \in {"LESS", "LESS_EQUAL", "GREATER", "GREATER_EQUAL"} -> 6
      [] op \in {"BITWISE_LEFT_SHIFT", "BITWISE_RIGHT_SHIFT"} -> 7
      [] op \in {"PLUS", "MINUS"} -> 8
      [] op \in {"MULTIPLY", "DIVIDE", "MODULO"} -> 9
      [] op = "POWER" -> 10

\* the tree of `left op right`, right being an expression, or for `as` the
\* identifier that names the type
TreeOf(op, left, right) ==
    CASE op \in AssignmentOperators -> AssignmentExpression(op, left, right)
      [] op = "AS" -> AsExpression(left, IF right.node = "Identifier"
                                         THEN PrimitiveType(right.name) ELSE right)
      [] OTHER -> BinaryExpression(op, left, right)

\* the statement parsed was `a o1 b o2 c`
IsThreeOperandChain ==
    /\ parser.pc = "done"
    /\ Len(parser.tokens) = 6
    /\ \A i \in {1, 3, 5} : parser.tokens[i] = "IDENTIFIER"

\* a o1 (b o2 c)
RightNested ==
    TreeOf(parser.tokens[2], IdentifierExpression("a"),
           TreeOf(parser.tokens[4], IdentifierExpression("b"), IdentifierExpression("c")))

\* C16: for every pair of operators o1, o2 with prec(o1) < prec(o2), the
\* statement `a o1 b o2 c` parses to the tree with root o1, left operand a
\* and right operand (b o2 c).
C16_LowerPrecedenceIsRoot ==
    (IsThreeOperandChain /\ Precedence(parser.tokens[2]) < Precedence(parser.tokens[4]))
        => (~parser.thrown /\ parser.node = RightNested)

\* C16 amended: the same for every pair in which o1 is not `as`, whose right
\* operand is a type and not an expression.
C16_LowerPrecedenceIsRootUnlessAs ==
    (/\ IsThreeOperandChain
     /\ parser.tokens[2] # "AS"
     /\ Precedence(parser.tokens[2]) < Precedence(parser.tokens[4]))
        => (~parser.thrown /\ parser.node = RightNested)

C16_Witness ==
    /\ IsThreeOperandChain
    /\ parser.tokens[2] = "PLUS"
    /\ parser.tokens[4] = "MODULO"
    /\ parser.node = BinaryExpression("PLUS", IdentifierExpression("a"),
                        BinaryExpression("MODULO", IdentifierExpression("b"),
                                         IdentifierExpression("c")))

----------------------------------------------------------------------------
(* Parser: blocks.  The stream is the body of a function from its `{` on;  *)
(* parser.blocks holds the `{` of every parseBlockStatement that is open,  *)
(* the innermost last; parser.recoveries records the tokens each error     *)
(* recovery skipped and the block it happened in.                          *)

\* tokens after the opening brace of the function body
MaxBodyTokens == 4

BodyTokens ==
    {"LEFT_BRACE", "RIGHT_BRACE", "LET", "IDENTIFIER", "ASSIGN", "SEMICOLON", "NEWLINE"}

\* Parser::skipNewlines
RECURSIVE skipNewlines(_, _)
skipNewlines(tokens, current) ==
    IF check(tokens, current, "NEWLINE") THEN skipNewlines(tokens, advance(tokens, current))
    ELSE current

\* the tokens at which Parser::synchronizeStatement stops without consuming
SynchronizeStatementAt == {"LET", "CONST", "IF", "WHILE", "FOR", "RETURN", "LEFT_BRACE"}

\* Parser::synchronizeStatement
RECURSIVE synchronizeStatement(_, _)
synchronizeStatement(tokens, current) ==
    IF isAtEnd(tokens, current) \/ check(tokens, current, "RIGHT_BRACE") THEN current
    ELSE IF check(tokens, current, "SEMICOLON") THEN advance(tokens, current)
    ELSE IF check(tokens, current, "NEWLINE") THEN current
    ELSE IF tokens[current] \in SynchronizeStatementAt THEN current
    ELSE synchronizeStatement(tokens, advance(tokens, current))

\* Parser::parseVariableDeclaration after `let`; no type annotation occurs
parseVariableDeclaration(tokens, current, er) ==
    IF ~check(tokens, current, "IDENTIFIER")
    THEN parseThrow(current, er, "Expected variable name")
    ELSE LET after == advance(tokens, current) IN
         consumeOptionalSemicolon(tokens,
             IF check(tokens, after, "ASSIGN")
             THEN parseExpression(tokens, advance(tokens, after), er)
             ELSE ParseResult(NoExpression, after, er, FALSE))

\* a recovery: the function that ran, the block it ran in, and the tokens
\* from..to-1 it skipped
Recovery(by, block, from, to) == [by |-> by, block |-> block, from |-> from, to |-> to]

NewBlockParser(tokens) ==
    [pc |-> "parseBlockStatement", tokens |-> tokens, current |-> 2,
     blocks |-> <<1>>, statements |-> 0, recoveries |-> <<>>]

InnermostBlock == parser.blocks[Len(parser.blocks)]

\* where a turn of the loop of parseBlockStatement looks, after skipNewlines
TurnAt == skipNewlines(parser.tokens, parser.current)

BlockStep(p, er) ==
    /\ parser' = p
    /\ error_reporter' = er
    /\ UNCHANGED <<driver_vars, tc, lexer, codegen>>

\* where the recovery function named by, called at current, leaves the parser
RecoveredTo(by, tokens, current) ==
    IF by = "synchronize" THEN synchronize(tokens, current)
    ELSE synchronizeStatement(tokens, current)

\* a turn of the loop whose statement returned or threw r: a statement more
\* in the block, or the catch clause and its recovery function
StatementStep(by, r) ==
    IF r.thrown
    THEN BlockStep([parser EXCEPT
                       !.current = RecoveredTo(by, parser.tokens, r.current),
                       !.recoveries =
                           Append(@, Recovery(by, InnermostBlock, r.current,
                                              RecoveredTo(by, parser.tokens, r.current)))],
                   r.er)
    ELSE BlockStep([parser EXCEPT !.current = r.current, !.statements = @ + 1], r.er)

\* Parser::parseBlockStatement, a turn at `let`: parseDeclaration, which
\* catches what parseVariableDeclaration throws and calls synchronize
parseBlockStatementDeclaration ==
    /\ parser.pc = "parseBlockStatement"
    /\ check(parser.tokens, TurnAt, "LET")
    /\ StatementStep("synchronize",
                     parseVariableDeclaration(parser.tokens, advance(parser.tokens, TurnAt),
                                              error_reporter))

\* Parser::parseBlockStatement, a turn at `{`: parseStatement enters the
\* nested parseBlockStatement
parseBlockStatementNested ==
    /\ parser.pc = "parseBlockStatement"
    /\ check(parser.tokens, TurnAt, "LEFT_BRACE")
    /\ BlockStep([parser EXCEPT !.current = advance(parser.tokens, TurnAt),
                                !.blocks = Append(@, TurnAt)],
                 error_reporter)

\* Parser::parseBlockStatement, a turn at any other token: parseStatement
\* falls through to parseExpressionStatement; a throw is caught by the loop
\* and followed by synchronizeStatement
parseBlockStatementStatement ==
    /\ parser.pc = "parseBlockStatement"
    /\ ~isAtEnd(parser.tokens, TurnAt)
    /\ parser.tokens[TurnAt] \notin {"LET", "LEFT_BRACE", "RIGHT_BRACE"}
    /\ StatementStep("synchronizeStatement",
                     consumeOptionalSemicolon(parser.tokens,
                         parseExpression(parser.tokens, TurnAt, error_reporter)))

\* the block statement returns to what called it: the loop of the enclosing
\* block, or parseFunctionDeclaration
Leave(p) ==
    [p EXCEPT !.blocks = SubSeq(@, 1, Len(@) - 1),
              !.pc = IF Len(p.blocks) = 1 THEN "returned" ELSE "parseBlockStatement"]

\* Parser::parseBlockStatement, the loop ends at `}`, which is consumed
parseBlockStatementEnd ==
    /\ parser.pc = "parseBlockStatement"
    /\ check(parser.tokens, TurnAt, "RIGHT_BRACE")
    /\ BlockStep(Leave([parser EXCEPT !.current = advance(parser.tokens, TurnAt),
                                      !.statements = @ + 1]),
                 error_reporter)

\* Parser::parseBlockStatement, the loop ends at EOF: consume reports and
\* throws; the enclosing block catches and calls synchronizeStatement,
\* parseDeclaration does for the body of the function and calls synchronize;
\* neither moves at EOF
parseBlockStatementUnclosed ==
    /\ parser.pc = "parseBlockStatement"
    /\ isAtEnd(parser.tokens, TurnAt)
    /\ BlockStep(Leave([parser EXCEPT
                           !.current = TurnAt,
                           !.recoveries =
                               Append(@, IF Len(parser.blocks) = 1
                                         THEN Recovery("synchronize", 0, TurnAt, TurnAt)
                                         ELSE Recovery("synchronizeStatement",
                                                       parser.blocks[Len(parser.blocks) - 1],
                                                       TurnAt, TurnAt))]),
                 parserReportError(error_reporter, "Expected '}' after block"))

InitBlocks ==
    /\ InitDriver
    /\ codegen = CodegenIdle
    /\ opts.print_tokens = "off"
    /\ tc = TcIdle
    /\ lexer = LexerIdle
    /\ \E n \in 0..MaxBodyTokens :
          \E body \in [1..n -> BodyTokens] :
             parser = NewBlockParser(<<"LEFT_BRACE">> \o body \o <<"EOF_TOKEN">>)

NextBlocks ==
    \/ parseBlockStatementDeclaration
    \/ parseBlockStatementNested
    \/ parseBlockStatementStatement
    \/ parseBlockStatementEnd
    \/ parseBlockStatementUnclosed

SpecBlocks == InitBlocks /\ [][NextBlocks]_vars

\* C17: error recovery inside a block never consumes a `}`: every recovery
\* stops at or before the closing brace of the block it happened in.
C17_RecoveryKeepsClosingBrace ==
    \A i \in 1..Len(parser.recoveries) :
        \A k \in parser.recoveries[i].from..(parser.recoveries[i].to - 1) :
            parser.tokens[k] # "RIGHT_BRACE"

----------------------------------------------------------------------------
(* Lexer.  lexer.source is the source text as a sequence of characters,    *)
(* lexer.current the number of characters consumed; lexer.tokens is the    *)
(* vector tokenize builds and lexer.scanned every token nextToken          *)
(* returned, comments included.  The source holds no digit and no operator *)
(* character other than `/` and `*`; `@` stands for the characters no      *)
(* branch of nextToken matches.                                            *)

\* pieces the source text is made of
MaxSourcePieces == 4

SourcePieces ==
    {<<"/", "*">>, <<"*", "/">>, <<"/">>, <<"\n">>, <<"\"">>, <<"a">>, <<" ">>, <<"@">>}

\* Lexer::isAtEnd, peek, peekNext; "\0" is written as the empty string
lexerIsAtEnd(source, current) == current >= Len(source)
lexerPeek(source, current) == IF lexerIsAtEnd(source, current) THEN "" ELSE source[current + 1]
lexerPeekNext(source, current) ==
    IF current + 1 >= Len(source) THEN "" ELSE source[current + 2]

\* Lexer::isAlpha, isAlphaNumeric on the characters of the source
isAlphaNumeric(c) == c = "a"

\* Lexer::skipWhitespace taking the newline for whitespace too
RECURSIVE skipWhitespace_SkipsNewline(_, _)
skipWhitespace_SkipsNewline(source, current) ==
    IF ~lexerIsAtEnd(source, current)
       /\ lexerPeek(source, current) \in {" ", "\r", "\t", "\n"}
    THEN skipWhitespace_SkipsNewline(source, current + 1)
    ELSE current

\* Lexer::skipWhitespace
RECURSIVE skipWhitespace(_, _)
skipWhitespace(source, current) ==
    IF ~lexerIsAtEnd(source, current) /\ lexerPeek(source, current) \in {" ", "\r", "\t"}
    THEN skipWhitespace(source, current + 1)
    ELSE current

\* Token as far as the lexer's callers use it here: the type, the span
\* start_pos..current of the lexeme, and the error reported while scanning
Token(type, start_pos, current, error) ==
    [type |-> type, start_pos |-> start_pos, current |-> current, error |-> error]

\* Lexer::skipLineComment
RECURSIVE skipLineComment(_, _, _)
skipLineComment(source, start_pos, current) ==
    IF lexerPeek(source, current) # "\n" /\ ~lexerIsAtEnd(source, current)
    THEN skipLineComment(source, start_pos, current + 1)
    ELSE Token("COMMENT", start_pos, current, "")

\* Lexer::skipBlockComment with the older loop, which stops at the first */
RECURSIVE skipBlockComment_FirstCloser(_, _, _, _)
skipBlockComment_FirstCloser(source, start_pos, current, nesting_level) ==
    IF lexerIsAtEnd(source, current)
    THEN Token("COMMENT", start_pos, current, "Unterminated block comment")
    ELSE IF lexerPeek(source, current) = "*" /\ lexerPeekNext(source, current) = "/"
    THEN Token("COMMENT", start_pos, current + 2, "")
    ELSE skipBlockComment_FirstCloser(source, start_pos, current + 1, nesting_level)

\* Lexer::skipBlockComment: the loop, entered with nesting_level 1
RECURSIVE skipBlockComment(_, _, _, _)
skipBlockComment(source, start_pos, current, nesting_level) ==
    IF ~lexerIsAtEnd(source, current) /\ nesting_level > 0
    THEN IF lexerPeek(source, current) = "/" /\ lexerPeekNext(source, current) = "*"
         THEN skipBlockComment(source, start_pos, current + 2, nesting_level + 1)
         ELSE IF lexerPeek(source, current) = "*" /\ lexerPeekNext(source, current) = "/"
         THEN skipBlockComment(source, start_pos, current + 2, nesting_level - 1)
         ELSE skipBlockComment(source, start_pos, current + 1, nesting_level)
    ELSE Token("COMMENT", start_pos, current,
               IF nesting_level > 0 THEN "Unterminated block comment" ELSE "")

\* Lexer::scanString after the opening quote; the body holds no escape
RECURSIVE scanString(_, _, _)
scanString(source, start_pos, current) ==
    IF lexerPeek(source, current) # "\"" /\ ~lexerIsAtEnd(source, current)
    THEN scanString(source, start_pos, current + 1)
    ELSE IF lexerIsAtEnd(source, current)
    THEN Token("STRING_LITERAL", start_pos, current, "Unterminated string")
    ELSE Token("STRING_LITERAL", start_pos, current + 1, "")

\* Lexer::scanIdentifier
RECURSIVE scanIdentifier(_, _, _)
scanIdentifier(source, start_pos, current) ==
    IF isAlphaNumeric(lexerPeek(source, current))
    THEN scanIdentifier(source, start_pos, current + 1)
    ELSE Token("IDENTIFIER", start_pos, current, "")

\* Lexer::nextToken at a character no branch matches, the character being
\* dropped as a comment is
unexpectedCharacter_Dropped(start_pos) ==
    Token("COMMENT", start_pos, start_pos + 1, "Unexpected character")

\* Lexer::nextToken at a character no branch matches: the error is reported
\* and the character returned as an identifier
unexpectedCharacter(start_pos) ==
    Token("IDENTIFIER", start_pos, start_pos + 1, "Unexpected character")

\* Lexer::nextToken
nextToken(source, current) ==
    LET start_pos == skipWhitespace(source, current)
        c == lexerPeek(source, start_pos)
        after == start_pos + 1
    IN
    IF lexerIsAtEnd(source, start_pos) THEN Token("EOF_TOKEN", start_pos, start_pos, "")
    ELSE CASE c = "*" ->
                 IF lexerPeek(source, after) = "=" THEN Token("MULTIPLY_ASSIGN", start_pos, after + 1, "")
                 ELSE IF lexerPeek(source, after) = "*" THEN Token("POWER", start_pos, after + 1, "")
                 ELSE Token("MULTIPLY", start_pos, after, "")
           [] c = "/" ->
                 IF lexerPeek(source, after) = "=" THEN Token("DIVIDE_ASSIGN", start_pos, after + 1, "")
                 ELSE IF lexerPeek(source, after) = "/"
                      THEN skipLineComment(source, start_pos, after + 1)
                 ELSE IF lexerPeek(source, after) = "*"
                      THEN skipBlockComment(source, start_pos, after + 1, 1)
                 ELSE Token("DIVIDE", start_pos, after, "")
           [] c = "\"" -> scanString(source, start_pos, after)
           [] isAlphaNumeric(c) -> scanIdentifier(source, start_pos, start_pos)
           [] c = "\n" -> Token("NEWLINE", start_pos, after, "")
           [] OTHER -> unexpectedCharacter(start_pos)

\* Lexer::reportError
lexerReportError(er, message) == IF message = "" THEN er ELSE reportError(er, message, FALSE)

\* Lexer::tokenize after its loop, with the closing token left out
tokenizeEnd_NoEof(tokens, current) == tokens

\* Lexer::tokenize after its loop: the EOF token is appended
tokenizeEnd(tokens, current) == Append(tokens, Token("EOF_TOKEN", current, current, ""))

\* Lexer::Lexer
NewLexer(source) ==
    [pc |-> "tokenize", source |-> source, current |-> 0, tokens |-> <<>>, scanned |-> <<>>]

\* Lexer::tokenize, one turn of its loop: comment tokens are not kept
tokenizeNextToken ==
    /\ lexer.pc = "tokenize"
    /\ ~lexerIsAtEnd(lexer.source, lexer.current)
    /\ LET token == nextToken(lexer.source, lexer.current) IN
       /\ lexer' = [lexer EXCEPT
                      !.current = token.current,
                      !.tokens = IF token.type # "COMMENT" THEN Append(@, token) ELSE @,
                      !.scanned = Append(@, token)]
       /\ error_reporter' = lexerReportError(error_reporter, token.error)
    /\ UNCHANGED <<driver_vars, tc, parser, codegen>>

\* Lexer::tokenize, the loop has reached the end of the source
tokenizeReturn ==
    /\ lexer.pc = "tokenize"
    /\ lexerIsAtEnd(lexer.source, lexer.current)
    /\ lexer' = [lexer EXCEPT !.pc = "done", !.tokens = tokenizeEnd(@, lexer.current)]
    /\ UNCHANGED <<error_reporter, driver_vars, tc, parser, codegen>>

InitLexer ==
    /\ InitDriver
    /\ codegen = CodegenIdle
    /\ opts.print_tokens = "off"
    /\ tc = TcIdle
    /\ parser = ParserIdle
    /\ \E n \in 0..MaxSourcePieces :
          \E pieces \in [1..n -> SourcePieces] : lexer = NewLexer(Concat(pieces))

NextLexer ==
    \/ tokenizeNextToken
    \/ tokenizeReturn

SpecLexer == InitLexer /\ [][NextLexer]_vars

\* C18: for any input, the vector tokenize returns is non-empty and its
\* last token is EOF.
C18_LastTokenIsEof ==
    lexer.pc = "done" =>
        /\ lexer.tokens # <<>>
        /\ lexer.tokens[Len(lexer.tokens)].type = "EOF_TOKEN"

\* tokenize has returned for an input with a lexical error at its end
C18_Witness ==
    /\ lexer.pc = "done"
    /\ error_reporter.has_errors
    /\ Len(lexer.tokens) > 1

\* the characters of the source inside a scanned token of one of the types
Inside(types) ==
    {i \in 1..Len(lexer.source) :
        \E k \in 1..Len(lexer.scanned) :
            /\ lexer.scanned[k].type \in types
            /\ lexer.scanned[k].start_pos < i
            /\ i <= lexer.scanned[k].current}

LineTerminators == {i \in 1..Len(lexer.source) : lexer.source[i] = "\n"}

NewlineTokens == {k \in 1..Len(lexer.tokens) : lexer.tokens[k].type = "NEWLINE"}

\* C19: the number of NEWLINE tokens in the output equals the number of
\* line terminators of the source that are not inside a string literal.
C19_NewlinePerLineTerminator ==
    lexer.pc = "done" =>
        Cardinality(NewlineTokens)
            = Cardinality(LineTerminators \ Inside({"STRING_LITERAL"}))

\* C19 amended: the number of NEWLINE tokens equals the number of line
\* terminators that are inside neither a string literal nor a comment.
C19_NewlinePerLineTerminatorOutsideComments ==
    lexer.pc = "done" =>
        Cardinality(NewlineTokens)
            = Cardinality(LineTerminators \ Inside({"STRING_LITERAL", "COMMENT"}))

\* a source with one line terminator in a block comment and one outside of
\* comments and strings has been tokenized
C19_Witness ==
    /\ lexer.pc = "done"
    /\ Cardinality(NewlineTokens) = 1
    /\ LineTerminators \cap Inside({"COMMENT"}) # {}
    /\ LineTerminators \cap Inside({"STRING_LITERAL"}) = {}
    /\ Cardinality(LineTerminators) = 2

\* the number of unmatched `/*` after reading source[pos+1..to] from left to
\* right, level of them being open at pos; `/*` and `*/` are read whole
RECURSIVE Unmatched(_, _, _, _)
Unmatched(source, pos, to, level) ==
    IF pos + 2 <= to /\ source[pos + 1] = "/" /\ source[pos + 2] = "*"
    THEN Unmatched(source, pos + 2, to, level + 1)
    ELSE IF pos + 2 <= to /\ source[pos + 1] = "*" /\ source[pos + 2] = "/"
    THEN Unmatched(source, pos + 2, to, level - 1)
    ELSE IF pos < to THEN Unmatched(source, pos + 1, to, level)
    ELSE level

\* the block comments the lexer has scanned
BlockComments ==
    {k \in 1..Len(lexer.scanned) :
        /\ lexer.scanned[k].type = "COMMENT"
        /\ lexer.source[lexer.scanned[k].start_pos + 2] = "*"}

\* C20: a block comment ends at the `*/` that brings the count of unmatched
\* `/*` back to zero and not before; if the source ends first, the comment
\* is reported as unterminated.
C20_BlockCommentsNest ==
    \A k \in BlockComments :
        LET t == lexer.scanned[k] IN
        /\ \A to \in (t.start_pos + 2)..(t.current - 1) :
              Unmatched(lexer.source, t.start_pos, to, 0) > 0
        /\ IF t.error = ""
           THEN Unmatched(lexer.source, t.start_pos, t.current, 0) = 0
           ELSE /\ t.current = Len(lexer.source)
                /\ Unmatched(lexer.source, t.start_pos, t.current, 0) > 0

\* a closed block comment with a closed comment nested in it was scanned
C20_Witness ==
    \E k \in BlockComments :
        LET t == lexer.scanned[k] IN
        /\ t.error = ""
        /\ \E to \in (t.start_pos + 4)..(t.current - 4) :
              Unmatched(lexer.source, t.start_pos, to, 0) = 2

\* the characters of the source no token starts with, outside of comments
\* and string literals
UnexpectedCharacters ==
    {i \in 1..Len(lexer.source) : lexer.source[i] = "@"}
        \ Inside({"STRING_LITERAL", "COMMENT"})

\* the diagnostics recorded for unexpected characters
UnexpectedCharacterDiagnostics ==
    {d \in 1..Len(error_reporter.diagnostics) :
        error_reporter.diagnostics[d] =
            DiagnosticMessage("ERROR", "Unexpected character", "")}

MaxNodes == 5

\* the names functions get, by their distance from the end of the module
FunctionNames == <<"f1", "f2", "f3", "f4", "f5", "f6", "f7", "f8">>

\* every generated function has this one parameter
ParameterName == "p"

\* an AST node: its class, its name (declarations and identifiers) and its
\* child statements
Node(node, name, children) == [node |-> node, name |-> name, children |-> children]

\* `let x = 0`, `x` and `return`
LeafStatements ==
    {Node("VariableDeclaration", "x", <<>>),
     Node("IdentifierExpression", "x", <<>>),
     Node("ReturnStatement", "", <<>>)}

\* Parser::parseStatement does not start a declaration: the branch of an if
\* and the body of a while are never a bare `let`
RECURSIVE StatementsOf(_)
RECURSIVE SequencesOf(_)
BranchesOf(n) == {s \in StatementsOf(n) : s.node # "VariableDeclaration"}

\* the statements of exactly n nodes
StatementsOf(n) ==
    IF n = 1 THEN LeafStatements
    ELSE {Node("BlockStatement", "", ss) : ss \in SequencesOf(n - 1)}
         \cup {Node("WhileStatement", "", <<b>>) : b \in BranchesOf(n - 1)}
         \cup {Node("IfStatement", "", <<b>>) : b \in BranchesOf(n - 1)}
         \cup UNION {{Node("IfStatement", "", <<b1, b2>>) :
                         b1 \in BranchesOf(i), b2 \in BranchesOf(n - 1 - i)} :
                     i \in 1..(n - 2)}

\* the statement lists of exactly n nodes
SequencesOf(n) ==
    IF n = 0 THEN {<<>>}
    ELSE UNION {{<<s>> \o t : s \in StatementsOf(k), t \in SequencesOf(n - k)} :
                k \in 1..n}

\* a top-level `let x = 0`, or `fn f(p) { ... }` whose children are the
\* statements of its body block
DeclarationsOf(n, name) ==
    (IF n = 1 THEN {Node("VariableDeclaration", "x", <<>>)} ELSE {})
    \cup {Node("FunctionDeclaration", name, ss) : ss \in SequencesOf(n - 1)}

\* the declaration lists of exactly n nodes
RECURSIVE ModulesOf(_)
ModulesOf(n) ==
    IF n = 0 THEN {<<>>}
    ELSE UNION {UNION {{<<d>> \o t : d \in DeclarationsOf(k, FunctionNames[Len(t) + 1])} :
                       t \in ModulesOf(n - k)} :
                k \in 1..n}

\* where a node sits in the program: the index of its declaration followed by
\* the child indices down to it (0 is a function's parameter)
Child(path, i) == Append(path, i)

\* --- TypeChecker over these nodes ---

\* the analysis in progress: the scope chain, what each identifier use was
\* resolved to, and the number of errors reported
Analysis(scopes, resolved, errors) ==
    [scopes |-> scopes, resolved |-> resolved, errors |-> errors]

Resolved(use, declaration) == [use |-> use, declaration |-> declaration]

\* TypeChecker::visit(VariableDeclaration&): a redefinition in the current
\* scope is reported, anything else is defined
analyzeVariableDeclaration(t, stmt, path) ==
    IF isDefined(currentScope(t.scopes), stmt.name)
    THEN [t EXCEPT !.errors = @ + 1]
    ELSE [t EXCEPT !.scopes =
             defineInCurrent(@, stmt.name, ScopeSymbol(stmt.name, "variable", path))]

\* TypeChecker::visit(IdentifierExpression&)
analyzeIdentifierExpression(t, stmt, path) ==
    IF lookup(t.scopes, stmt.name).found
    THEN [t EXCEPT !.resolved =
             Append(@, Resolved(path, lookup(t.scopes, stmt.name).symbol.declaration_location))]
    ELSE [t EXCEPT !.errors = @ + 1]

analyzeExitScope(t) == [t EXCEPT !.scopes = exitScope(@)]
analyzeEnterScope(t) == [t EXCEPT !.scopes = enterScope(@)]

RECURSIVE analyzeStatement(_, _, _)
RECURSIVE analyzeStatements(_, _, _, _)
\* the statements of a list from the i-th on, in order
analyzeStatements(t, stmts, path, i) ==
    IF i > Len(stmts) THEN t
    ELSE analyzeStatements(analyzeStatement(t, stmts[i], Child(path, i)), stmts, path, i + 1)

\* TypeChecker::visit of the statement classes: a block opens a scope, if and
\* while visit their branches in the scope they are in
analyzeStatement(t, stmt, path) ==
    CASE stmt.node = "VariableDeclaration" -> analyzeVariableDeclaration(t, stmt, path)
      [] stmt.node = "IdentifierExpression" -> analyzeIdentifierExpression(t, stmt, path)
      [] stmt.node = "ReturnStatement" -> t
      [] stmt.node = "BlockStatement" ->
            analyzeExitScope(analyzeStatements(analyzeEnterScope(t), stmt.children, path, 1))
      [] OTHER -> analyzeStatements(t, stmt.children, path, 1)

\* TypeChecker::visit(FunctionDeclaration&): the function's name goes in the
\* current scope, its parameter in a scope of its own, and the body block
\* opens one more
analyzeFunctionParameter(t, path) ==
    [t EXCEPT !.scopes =
        defineInCurrent(enterScope(@), ParameterName,
                        ScopeSymbol(ParameterName, "parameter", Child(path, 0)))]

analyzeFunctionName(t, decl, path) ==
    [t EXCEPT !.scopes = defineInCurrent(@, decl.name, ScopeSymbol(decl.name, "function", path))]

analyzeFunctionDeclaration(t, decl, path) ==
    analyzeExitScope(analyzeExitScope(
        analyzeStatements(
            analyzeEnterScope(analyzeFunctionParameter(analyzeFunctionName(t, decl, path), path)),
            decl.children, path, 1)))

\* Module's declarations from the i-th on, as TypeChecker::visit(Module&) takes them
RECURSIVE analyzeDeclarations(_, _, _)
analyzeDeclarations(t, decls, i) ==
    IF i > Len(decls) THEN t
    ELSE analyzeDeclarations(
             IF decls[i].node = "FunctionDeclaration"
             THEN analyzeFunctionDeclaration(t, decls[i], <<i>>)
             ELSE analyzeVariableDeclaration(t, decls[i], <<i>>),
             decls, i + 1)

\* --- LLVMCodeGenerator ---

\* a basic block of a function: its instructions in order; eraseFromParent
\* marks it erased
BasicBlock(function, name) ==
    [function |-> function, name |-> name, insts |-> <<>>, erased |-> FALSE]

\* an instruction: its opcode, the storage it works on (0: none) and the
\* blocks it branches to
Instruction(op, operand, targets) == [op |-> op, operand |-> operand, targets |-> targets]

Terminators == {"br", "condbr", "ret"}

\* an llvm::Value that holds a variable: an AllocaInst in the block it was
\* inserted into, or a GlobalVariable
StorageValue(kind, function, block) == [kind |-> kind, function |-> function, block |-> block]

\* VariableInfo: the value, the declaring node and is_global
VariableInfo(value, declaration, is_global) ==
    [value |-> value, declaration |-> declaration, is_global |-> is_global]

\* a key of symbol_table: "__local_<function>_<name>", or the bare name (function 0)
SymbolKey(function, name) == [function |-> function, name |-> name]

\* what visit(IdentifierExpression&) found for one use
IdentifierUse(use, function, found, info) ==
    [use |-> use, function |-> function, found |-> found,
     declaration |-> info.declaration, value |-> info.value]

\* what visit(IfStatement&) did for one if
IfLowering(path, has_else, then_has_terminator, else_has_terminator, merge_block, g) ==
    [path |-> path, has_else |-> has_else,
     then_has_terminator |-> then_has_terminator,
     else_has_terminator |-> else_has_terminator,
     merge_block |-> merge_block,
     merge_erased |-> g.blocks[merge_block].erased,
     insert_after |-> g.insert]

\* the generator after construction, about to visit the module's declarations
NewCodeGenerator(declarations) ==
    [pc |-> "analyze", declarations |-> declarations, idx |-> 1,
     blocks |-> <<>>, insert |-> 0, current_function |-> 0,
     local_scopes |-> <<>>, symbol_table |-> EmptyMap, values |-> <<>>,
     uses |-> <<>>, ifs |-> <<>>, errors |-> 0]

\* std::unordered_map::emplace: an existing key keeps its value
emplace(map, key, value) == IF key \in DOMAIN map THEN map ELSE MapPut(map, key, value)

\* LLVMCodeGenerator::createBasicBlock: appended to the function's blocks
createBasicBlock(g, name) ==
    [g EXCEPT !.blocks = Append(@, BasicBlock(g.current_function, name))]

\* IRBuilder::SetInsertPoint(block): the end of the block
SetInsertPoint(g, block) == [g EXCEPT !.insert = block]

\* IRBuilder::Insert: at the insertion point, whatever the block holds already
Insert(g, inst) == [g EXCEPT !.blocks[g.insert].insts = Append(@, inst)]

CreateBr(g, block) == Insert(g, Instruction("br", 0, <<block>>))
CreateCondBr(g, true_block, false_block) ==
    Insert(g, Instruction("condbr", 0, <<true_block, false_block>>))
CreateRetVoid(g) == Insert(g, Instruction("ret", 0, <<>>))

\* IRBuilder::CreateAlloca: a new AllocaInst at the insertion point
CreateAlloca(g) ==
    Insert([g EXCEPT !.values = Append(@, StorageValue("alloca", g.current_function, g.insert))],
           Instruction("alloca", Len(g.values) + 1, <<>>))

\* BasicBlock::getTerminator of the insertion block: its last instruction, if
\* that is a terminator
getTerminator(g) ==
    /\ g.blocks[g.insert].insts # <<>>
    /\ g.blocks[g.insert].insts[Len(g.blocks[g.insert].insts)].op \in Terminators

\* BasicBlock::eraseFromParent
eraseFromParent(g, block) == [g EXCEPT !.blocks[block].erased = TRUE]

\* LLVMCodeGenerator::enterScope, exitScope, enterFunctionScope, exitFunctionScope
codegenEnterScope(g) == [g EXCEPT !.local_scopes = Append(@, EmptyMap)]

codegenExitScope(g) ==
    IF g.local_scopes # <<>>
    THEN [g EXCEPT !.local_scopes = SubSeq(@, 1, Len(@) - 1)]
    ELSE g

enterFunctionScope(g, function) ==
    codegenEnterScope([g EXCEPT !.current_function = function])

exitFunctionScope(g) == [codegenExitScope(g) EXCEPT !.current_function = 0]

\* LLVMCodeGenerator::declareVariable: a local whose name is new to the
\* innermost scope goes in symbol_table under the function's key and the scope
\* points to that entry (kept here as the entry's VariableInfo, which nothing
\* changes afterwards); everything else goes in symbol_table under the bare name
declareVariable(g, name, info) ==
    IF /\ g.current_function # 0
       /\ ~info.is_global
       /\ g.local_scopes # <<>>
       /\ name \notin DOMAIN g.local_scopes[Len(g.local_scopes)]
    THEN [g EXCEPT
            !.local_scopes[Len(g.local_scopes)] =
                MapPut(@, name,
                       IF SymbolKey(g.current_function, name) \in DOMAIN g.symbol_table
                       THEN g.symbol_table[SymbolKey(g.current_function, name)]
                       ELSE info),
            !.symbol_table = emplace(@, SymbolKey(g.current_function, name), info)]
    ELSE [g EXCEPT !.symbol_table = emplace(@, SymbolKey(0, name), info)]

\* the result of lookupVariable: a VariableInfo, or nullptr
NoVariable == [found |-> FALSE, info |-> VariableInfo(0, <<>>, FALSE)]
FoundVariable(info) == [found |-> TRUE, info |-> info]

\* LLVMCodeGenerator::lookupVariable: the local scopes from the innermost
\* out, then symbol_table under the bare name
RECURSIVE lookupVariable(_, _, _)
lookupVariable(local_scopes, symbol_table, name) ==
    IF local_scopes = <<>>
    THEN IF SymbolKey(0, name) \in DOMAIN symbol_table
         THEN FoundVariable(symbol_table[SymbolKey(0, name)])
         ELSE NoVariable
    ELSE IF name \in DOMAIN local_scopes[Len(local_scopes)]
         THEN FoundVariable(local_scopes[Len(local_scopes)][name])
         ELSE lookupVariable(SubSeq(local_scopes, 1, Len(local_scopes) - 1), symbol_table, name)

\* LLVMCodeGenerator::visit(VariableDeclaration&) inside a function, for
\* `let x = 0`: alloca and store at the insertion point, then declareVariable
generateLocalVariableDeclaration(g, stmt, path) ==
    declareVariable(
        Insert(CreateAlloca(g), Instruction("store", Len(g.values) + 1, <<>>)),
        stmt.name, VariableInfo(Len(g.values) + 1, path, FALSE))

\* LLVMCodeGenerator::visit(VariableDeclaration&) with no current function:
\* a GlobalVariable, declared under the bare name
generateGlobalVariableDeclaration(g, decl, path) ==
    declareVariable(
        [g EXCEPT !.values = Append(@, StorageValue("global", 0, 0))],
        decl.name, VariableInfo(Len(g.values) + 1, path, TRUE))

\* LLVMCodeGenerator::visit(IdentifierExpression&): lookupVariable, then a load
generateIdentifierExpression(g, stmt, path) ==
    IF lookupVariable(g.local_scopes, g.symbol_table, stmt.name).found
    THEN [Insert(g, Instruction("load",
                     lookupVariable(g.local_scopes, g.symbol_table, stmt.name).info.value,
                     <<>>))
            EXCEPT !.uses = Append(@, IdentifierUse(path, g.current_function, TRUE,
                         lookupVariable(g.local_scopes, g.symbol_table, stmt.name).info))]
    ELSE [g EXCEPT !.errors = @ + 1,
                   !.uses = Append(@, IdentifierUse(path, g.current_function, FALSE,
                                                    NoVariable.info))]

\* a variant that keeps the merge block whenever the then branch fell through
\* and never looks at the else branch
mergeReachable_ThenOnly(then_has_terminator, else_has_terminator, has_else) ==
    ~then_has_terminator \/ ~has_else

\* visit(IfStatement&): "Only continue with merge block if it's reachable"
mergeReachable(then_has_terminator, else_has_terminator, has_else) ==
    ~then_has_terminator \/ ~else_has_terminator \/ ~has_else

\* visit(IfStatement&) from the merge decision on
lowerIfMerge(g, then_has_terminator, else_has_terminator, has_else, merge_block) ==
    IF mergeReachable(then_has_terminator, else_has_terminator, has_else)
    THEN SetInsertPoint(g, merge_block)
    ELSE eraseFromParent(g, merge_block)

logIfLowering(g, path, has_else, then_has_terminator, else_has_terminator, merge_block) ==
    [g EXCEPT !.ifs = Append(@, IfLowering(path, has_else, then_has_terminator,
                                           else_has_terminator, merge_block, g))]

\* a branch that did not end in a terminator gets a br to the merge block
branchToMerge(g, merge_block) ==
    IF getTerminator(g) THEN g ELSE CreateBr(g, merge_block)

\* visit(IfStatement&) after the else branch was generated
lowerIfAfterElse(g, path, then_has_terminator, merge_block) ==
    logIfLowering(
        lowerIfMerge(branchToMerge(g, merge_block), then_has_terminator, getTerminator(g),
                     TRUE, merge_block),
        path, TRUE, then_has_terminator, getTerminator(g), merge_block)

RECURSIVE generateStatement(_, _, _)

\* visit(IfStatement&) after the then branch was generated
lowerIfAfterThen(g, stmt, path, else_block, merge_block) ==
    IF else_block # 0
    THEN lowerIfAfterElse(
             generateStatement(SetInsertPoint(branchToMerge(g, merge_block), else_block),
                            stmt.children[2], Child(path, 2)),
             path, getTerminator(g), merge_block)
    ELSE logIfLowering(
             lowerIfMerge(branchToMerge(g, merge_block), getTerminator(g), FALSE, FALSE,
                          merge_block),
             path, FALSE, getTerminator(g), FALSE, merge_block)

\* visit(IfStatement&) up to the then branch: the blocks "then", "else" (if
\* there is an else branch) and "ifcont", the conditional branch, and the
\* insertion point in "then"; the condition is a boolean literal
lowerIfBlocks(g, has_else) ==
    SetInsertPoint(
        CreateCondBr(
            createBasicBlock(
                IF has_else
                THEN createBasicBlock(createBasicBlock(g, "then"), "else")
                ELSE createBasicBlock(g, "then"),
                "ifcont"),
            Len(g.blocks) + 1, Len(g.blocks) + 2),
        Len(g.blocks) + 1)

\* LLVMCodeGenerator::visit(IfStatement&)
generateIfStatement(g, stmt, path) ==
    lowerIfAfterThen(
        generateStatement(lowerIfBlocks(g, Len(stmt.children) = 2), stmt.children[1], Child(path, 1)),
        stmt, path,
        IF Len(stmt.children) = 2 THEN Len(g.blocks) + 2 ELSE 0,
        IF Len(stmt.children) = 2 THEN Len(g.blocks) + 3 ELSE Len(g.blocks) + 2)

\* visit(WhileStatement&) up to the body: the blocks "loop", "loopbody" and
\* "afterloop", the br to "loop", the conditional branch in it, and the
\* insertion point in "loopbody"; the condition is a boolean literal
lowerWhileBlocks(g) ==
    SetInsertPoint(
        CreateCondBr(
            SetInsertPoint(
                CreateBr(createBasicBlock(createBasicBlock(createBasicBlock(g, "loop"),
                                                           "loopbody"), "afterloop"),
                         Len(g.blocks) + 1),
                Len(g.blocks) + 1),
            Len(g.blocks) + 2, Len(g.blocks) + 3),
        Len(g.blocks) + 2)

\* visit(WhileStatement&) after the body was generated
lowerWhileAfterBody(g, loop_block, after_block) ==
    SetInsertPoint(CreateBr(g, loop_block), after_block)

\* LLVMCodeGenerator::visit(WhileStatement&)
generateWhileStatement(g, stmt, path) ==
    lowerWhileAfterBody(
        generateStatement(lowerWhileBlocks(g), stmt.children[1], Child(path, 1)),
        Len(g.blocks) + 1, Len(g.blocks) + 3)

\* LLVMCodeGenerator::visit(ReturnStatement&) for `return`
generateReturnStatement(g) == CreateRetVoid(g)

\* LLVMCodeGenerator::visit(BlockStatement&): the statements from the i-th on
RECURSIVE generateBlockStatement(_, _, _, _)
generateBlockStatement(g, stmts, path, i) ==
    IF i > Len(stmts) THEN g
    ELSE generateBlockStatement(generateStatement(g, stmts[i], Child(path, i)), stmts, path, i + 1)

\* accept(): the visit of the statement's class
generateStatement(g, stmt, path) ==
    CASE stmt.node = "VariableDeclaration" -> generateLocalVariableDeclaration(g, stmt, path)
      [] stmt.node = "IdentifierExpression" -> generateIdentifierExpression(g, stmt, path)
      [] stmt.node = "ReturnStatement" -> generateReturnStatement(g)
      [] stmt.node = "BlockStatement" -> generateBlockStatement(g, stmt.children, path, 1)
      [] stmt.node = "IfStatement" -> generateIfStatement(g, stmt, path)
      [] stmt.node = "WhileStatement" -> generateWhileStatement(g, stmt, path)

\* visit(FunctionDeclaration&) up to the body: the entry block, the function
\* scope, and the parameter's alloca, store and declareVariable
lowerFunctionEntry(g, function, path) ==
    declareVariable(
        Insert(CreateAlloca(enterFunctionScope(
                   SetInsertPoint(createBasicBlock([g EXCEPT !.current_function = function],
                                                   "entry"),
                                  Len(g.blocks) + 1),
                   function)),
               Instruction("store", Len(g.values) + 1, <<>>)),
        ParameterName, VariableInfo(Len(g.values) + 1, Child(path, 0), FALSE))

\* visit(FunctionDeclaration&) after the body: "Add return if missing (for
\* void functions)", then the previous state is restored
lowerFunctionExit(g, old_function) ==
    [exitFunctionScope(IF getTerminator(g) THEN g ELSE CreateRetVoid(g))
        EXCEPT !.current_function = old_function]

\* LLVMCodeGenerator::visit(FunctionDeclaration&) for a void function with a
\* body; the function is known by the index of its declaration
generateFunctionDeclaration(g, decl, function) ==
    lowerFunctionExit(
        generateBlockStatement(lowerFunctionEntry(g, function, <<function>>),
                            decl.children, <<function>>, 1),
        g.current_function)

\* --- the pipeline of main from semantic analysis on ---

\* main: type_checker.analyze(*program); errors end the run before codegen
typeCheckerAnalyze ==
    /\ codegen.pc = "analyze"
    /\ tc' = [pc |-> "done",
              analysis |-> analyzeDeclarations(Analysis(<<EmptyMap>>, <<>>, 0),
                                               codegen.declarations, 1)]
    /\ codegen' = [codegen EXCEPT !.pc =
                      IF tc'.analysis.errors = 0 THEN "generateCode" ELSE "rejected"]
    /\ UNCHANGED <<error_reporter, driver_vars, lexer, parser>>

\* after the declaration at idx: the next one, or the end of visit(Module&)
AfterDeclaration(g) ==
    [g EXCEPT !.idx = @ + 1,
              !.pc = IF g.idx = Len(g.declarations) THEN "done" ELSE "generateCode"]

\* visit(Module&): the next declaration is a function
codegenFunctionDeclaration ==
    /\ codegen.pc = "generateCode"
    /\ codegen.declarations[codegen.idx].node = "FunctionDeclaration"
    /\ codegen' = AfterDeclaration(
                      generateFunctionDeclaration(codegen, codegen.declarations[codegen.idx],
                                               codegen.idx))
    /\ UNCHANGED <<error_reporter, driver_vars, tc, lexer, parser>>

\* visit(Module&): the next declaration is a top-level variable
codegenVariableDeclaration ==
    /\ codegen.pc = "generateCode"
    /\ codegen.declarations[codegen.idx].node = "VariableDeclaration"
    /\ codegen' = AfterDeclaration(
                      generateGlobalVariableDeclaration(codegen, codegen.declarations[codegen.idx],
                                                     <<codegen.idx>>))
    /\ UNCHANGED <<error_reporter, driver_vars, tc, lexer, parser>>

InitCodegen ==
    /\ InitDriver
    /\ tc = TcIdle
    /\ lexer = LexerIdle
    /\ parser = ParserIdle
    /\ \E n \in 1..MaxNodes :
          \E declarations \in ModulesOf(n) : codegen = NewCodeGenerator(declarations)

NextCodegen ==
    \/ typeCheckerAnalyze
    \/ codegenFunctionDeclaration
    \/ codegenVariableDeclaration

SpecCodegen == InitCodegen /\ [][NextCodegen]_vars

\* C24: every identifier use inside a function body is resolved by code
\* generation to the declaration the semantic analyzer resolved it to, also
\* when a nested or sibling block declares the name again
C24_SameDeclarationAsAnalyzer ==
    codegen.pc \in {"generateCode", "done"} =>
        \A i \in 1..Len(codegen.uses) :
            \A j \in 1..Len(tc.analysis.resolved) :
                tc.analysis.resolved[j].use = codegen.uses[i].use =>
                    /\ codegen.uses[i].found
                    /\ codegen.uses[i].declaration = tc.analysis.resolved[j].declaration

\* C25: in the emitted functions every basic block holds at most one
\* terminator, and it is the block's last instruction
C25_TerminatorIsLast ==
    \A b \in 1..Len(codegen.blocks) :
        ~codegen.blocks[b].erased =>
            \A i \in 1..(Len(codegen.blocks[b].insts) - 1) :
                codegen.blocks[b].insts[i].op \notin Terminators

\* the top-level variables visit(Module&) has gone through
GlobalsDeclared ==
    {i \in 1..Len(codegen.declarations) :
        i < codegen.idx /\ codegen.declarations[i].node = "VariableDeclaration"}

\* C26: a local is in symbol_table only under the key of its own function, no
\* lookup from another function or from global scope returns it, and a global
\* of the same name is registered all the same
C26_LocalsOnlyUnderFunctionKey ==
    /\ \A key \in DOMAIN codegen.symbol_table :
          ~codegen.symbol_table[key].is_global =>
              /\ key.function # 0
              /\ key.function = codegen.values[codegen.symbol_table[key].value].function
    /\ \A i \in 1..Len(codegen.uses) :
          (codegen.uses[i].found /\ codegen.values[codegen.uses[i].value].kind = "alloca") =>
              codegen.values[codegen.uses[i].value].function = codegen.uses[i].function
    /\ \A i \in GlobalsDeclared :
          /\ SymbolKey(0, codegen.declarations[i].name) \in DOMAIN codegen.symbol_table
          /\ codegen.symbol_table[SymbolKey(0, codegen.declarations[i].name)].is_global

\* C27: the storage of every local variable and parameter is an alloca in the
\* entry block of its function
C27_AllocasInEntryBlock ==
    \A v \in 1..Len(codegen.values) :
        codegen.values[v].kind = "alloca" =>
            /\ codegen.blocks[codegen.values[v].block].name = "entry"
            /\ codegen.blocks[codegen.values[v].block].function = codegen.values[v].function

\* C30: the merge block of an if is erased exactly when there is an else
\* branch and both branches ended in a terminator; otherwise it is kept and is
\* the insertion point after the if
C30_MergeErasedIffBothTerminate ==
    \A i \in 1..Len(codegen.ifs) :
        /\ codegen.ifs[i].merge_erased <=>
              /\ codegen.ifs[i].has_else
              /\ codegen.ifs[i].then_has_terminator
              /\ codegen.ifs[i].else_has_terminator
        /\ ~codegen.ifs[i].merge_erased => codegen.ifs[i].insert_after = codegen.ifs[i].merge_block

\* an if with two returning branches whose merge block was erased, inside the
\* then branch of an if without else, whose merge block was kept
C30_Witness ==
    \E i, j \in 1..Len(codegen.ifs) :
        /\ codegen.ifs[i].has_else
        /\ codegen.ifs[i].merge_erased
        /\ ~codegen.ifs[j].has_else
        /\ codegen.ifs[j].then_has_terminator
        /\ ~codegen.ifs[j].merge_erased
        /\ codegen.insert = codegen.ifs[j].merge_block

====
